---- MODULE Spec2Model ----
(***************************************************************************)
(* A model of the EPO-OPS client of epo_utils: EPOClient (api.py) with its *)
(* throttle ledger, quota counters and token handling, and the parts of    *)
(* OPSConnection (connection.py) built on it.                              *)
(*                                                                         *)
(* Time is the wall clock read by datetime.now(), counted in milliseconds  *)
(* and taken to be monotone.  None is the string "None" where the code     *)
(* holds a string or an object, and NoTime where it holds a datetime.      *)
(* One operation of the client is one action; the record ev holds what the *)
(* caller and the network saw of the operation that has just returned, and *)
(* Idle is the caller's own time between two operations.                   *)
(***************************************************************************)
EXTENDS Integers, Sequences, FiniteSets, TLC

VARIABLES
    clock,                  \* datetime.now(), in ms
    client,                 \* "unbuilt" | "built" | "failed" (the constructor raised)
    key, secret,            \* EPOClient.key, EPOClient.secret
    token,                  \* EPOClient.token: NoToken or [token, expires]
    last_call, next_call,   \* EPOClient._last_call, EPOClient._next_call
    quota_per_hour_used,    \* EPOClient.quota_per_hour_used
    quota_per_week_used,    \* EPOClient.quota_per_week_used
    issued,                 \* tokens granted so far by the authentication endpoint
    calls,                  \* operations invoked so far: the calls of the client,
                            \* and the methods of OPSConnection that made none
    ev,                     \* what was observed of the operation that just returned
    job,                    \* the frame of the OPSConnection method that is running
    callers                 \* the frames of _throttled_call of the threads that share
                            \* the client

vars == <<clock, client, key, secret, token, last_call, next_call,
          quota_per_hour_used, quota_per_week_used, issued, calls, ev, job,
          callers>>

----------------------------------------------------------------------------
\* Bounds of the model.

\* Operations invoked on one client in a behaviour.
MaxCalls == 2

\* The caller's own time between two operations, in ms.
Pauses == {0, 5000}

\* By how much time.sleep may overshoot the requested duration, in ms.
Oversleep == {0, 3}

\* Calls per minute reported in X-Throttling-Control, each with the (hourly,
\* weekly) usage reported in the two quota headers of the same 2xx response:
\* 60 divides a minute evenly, 7 does not, and 25 divides it into 2400 ms.
Rates == {<<7, <<5, 9>>>>, <<25, <<3, 7>>>>, <<60, <<5, 9>>>>}

\* Lifetimes (expires_in, seconds) granted by the authentication endpoint: a
\* token granted at 0 is still valid at 5000 ms and has expired after that.
ExpiresIn == {5}

\* (hourly, weekly) usage reported in the two quota headers of an error
\* response.
ErrorQuotaHeaders == {<<6, 8>>}

\* Values of the constructor's max_retries argument.
RetryCounts == {-1, 0, 3}

----------------------------------------------------------------------------
\* Values.

None == "None"
NoTime == -1
NoToken == [token |-> 0, expires |-> NoTime]

\* timedelta.seconds and .microseconds leave out timedelta.days.
DayMs == 86400000

\* The keys of _last_call and _next_call.
BucketNames == {"search", "retrieval", "inpadoc", "images", "other"}

\* Bucket names a caller passes to get and post.
BucketArgs == {"retrieval", "search", "images", "unknown"}

\* The values of the enum Services, of the enum ReferenceType, and the
\* constants VALID_ENDPOINTS and VALID_IDTYPES.
Services == {"family", "number-service", "published-data",
             "published-data/search", "register", "register/search",
             "classification/cpc"}
ReferenceType == {"publication", "application", "priority"}
VALID_ENDPOINTS == {"fulltext", "claims", "description", "images",
                    "equivalents", "biblio", "abstract", ""}
VALID_IDTYPES == {"epodoc", "docdb", "original", "classification"}

\* A key or a secret: None, the empty string, or a non-empty string.
Credentials == {None, "", "k"}

IsStr(x) == x # None
Truthy(x) == x # None /\ x # ""

Rejections == {None, "RegisteredQuotaPerWeek", "IndividualQuotaPerHour",
               "AnonymousQuotaPerMinute"}

\* A response of the data service: its status and the headers the client reads.
Response(status, rejection, rate, q) ==
    [status |-> status, rejection |-> rejection, rate |-> rate,
     hour |-> q[1], week |-> q[2]]

OkResponses == {Response(200, None, x[1], x[2]) : x \in Rates}
ForbiddenResponses ==
    {Response(403, r, 60, q) : r \in Rejections, q \in ErrorQuotaHeaders}
OtherErrorResponses ==
    {Response(x[1], x[2], 60, q) :
        x \in {<<404, None>>, <<404, "RegisteredQuotaPerWeek">>,
               <<500, None>>},
        q \in ErrorQuotaHeaders}
Responses == OkResponses \cup ForbiddenResponses \cup OtherErrorResponses
NoResponse == Response(0, None, 0, <<0, 0>>)

\* A response of the authentication endpoint; a grant carries a fresh token.
AuthResponses ==
    {[status |-> 200, expires_in |-> e] : e \in ExpiresIn}
        \cup {[status |-> 401, expires_in |-> 0]}
NoAuthResponse == [status |-> 0, expires_in |-> 0]

----------------------------------------------------------------------------
\* Text and APIInput.

\* A str is the sequence of its characters; NoText is None where the code
\* holds a str or None.
NoText == <<None>>

Digits == {"0", "1", "2", "3", "4", "5", "6", "7", "8", "9"}
NonZeroDigits == Digits \ {"0"}

\* int() of a digit.
DigitValue(c) ==
    CASE c = "0" -> 0 [] c = "1" -> 1 [] c = "2" -> 2 [] c = "3" -> 3
      [] c = "4" -> 4 [] c = "5" -> 5 [] c = "6" -> 6 [] c = "7" -> 7
      [] c = "8" -> 8 [] c = "9" -> 9

\* The character of t at position i, "" past its end.
At(t, i) == IF i \in DOMAIN t THEN t[i] ELSE ""

\* sep.join(texts).
RECURSIVE Join(_, _)
Join(texts, sep) ==
    IF texts = <<>> THEN <<>>
    ELSE IF Len(texts) = 1 THEN texts[1]
    ELSE texts[1] \o sep \o Join(Tail(texts), sep)

\* t.replace(' ', '%20').
RECURSIVE ReplaceSpaces(_)
ReplaceSpaces(t) ==
    IF t = <<>> THEN <<>>
    ELSE (IF t[1] = " " THEN <<"%", "2", "0">> ELSE <<t[1]>>)
            \o ReplaceSpaces(Tail(t))

\* not t.strip(): t holds nothing but whitespace.
Blank(t) == \A i \in DOMAIN t : t[i] = " "

\* c in t.
Contains(t, c) == \E i \in DOMAIN t : t[i] = c

\* Where the directive %m of strptime ends when it starts at position p of t:
\* the first of 1[0-2], 0[1-9], [1-9] that matches; 0 when none does.
MonthEnd(t, p) ==
    IF At(t, p) = "1" /\ At(t, p + 1) \in {"0", "1", "2"} THEN p + 2
    ELSE IF At(t, p) = "0" /\ At(t, p + 1) \in NonZeroDigits THEN p + 2
    ELSE IF At(t, p) \in NonZeroDigits THEN p + 1
    ELSE 0

\* Where the directive %d ends when it starts at position p of t: the first
\* of 3[0-1], [1-2]\d, 0[1-9], [1-9], ' '[1-9] that matches; 0 when none does.
DayEnd(t, p) ==
    IF At(t, p) = "3" /\ At(t, p + 1) \in {"0", "1"} THEN p + 2
    ELSE IF At(t, p) \in {"1", "2"} /\ At(t, p + 1) \in Digits THEN p + 2
    ELSE IF At(t, p) = "0" /\ At(t, p + 1) \in NonZeroDigits THEN p + 2
    ELSE IF At(t, p) \in NonZeroDigits THEN p + 1
    ELSE IF At(t, p) = " " /\ At(t, p + 1) \in NonZeroDigits THEN p + 2
    ELSE 0

\* int() of the characters p .. q - 1 of t, a leading space left out.
RECURSIVE IntOf(_, _, _)
IntOf(t, p, q) ==
    IF p >= q THEN 0
    ELSE IF t[q - 1] = " " THEN 0
    ELSE IntOf(t, p, q - 1) * 10 + DigitValue(t[q - 1])

\* The days of month m of year y.
DaysIn(y, m) ==
    IF m = 2
    THEN IF y % 4 = 0 /\ (y % 100 # 0 \/ y % 400 = 0) THEN 29 ELSE 28
    ELSE IF m \in {4, 6, 9, 11} THEN 30 ELSE 31

\* Whether datetime.strptime(t, '%Y%m%d') returns: \d\d\d\d, %m and %d match
\* from the start of t, nothing remains after them, and the year, month and
\* day they give are a date.
strptime_ok(t) ==
    /\ \A i \in 1..4 : At(t, i) \in Digits
    /\ MonthEnd(t, 5) # 0
    /\ DayEnd(t, MonthEnd(t, 5)) # 0
    /\ DayEnd(t, MonthEnd(t, 5)) = Len(t) + 1
    /\ LET y == IntOf(t, 1, 5)
           m == IntOf(t, 5, MonthEnd(t, 5))
           d == IntOf(t, MonthEnd(t, 5), Len(t) + 1)
       IN  y >= 1 /\ d <= DaysIn(y, m)

\* What APIInput.__init__(id_type, number, kind, country, date) raises, or None.
api_input_check(id_type, number, kind, country, date) ==
    IF id_type \notin VALID_IDTYPES THEN "ValueError"
    ELSE IF date # NoText /\ ~(strptime_ok(date) /\ Len(date) = 8)
    THEN "ValueError"
    ELSE IF country # NoText /\ Blank(country) THEN "ValueError"
    ELSE IF kind # NoText /\ Blank(kind) THEN "ValueError"
    ELSE None

\* An APIInput object.
APIInput(id_type, number, kind, country, date) ==
    [id_type |-> id_type, number |-> number, kind |-> kind,
     country |-> country, date |-> date]

\* A variant of to_id's number that is in parentheses for a classification
\* too.
to_id_number_always(in) ==
    IF Contains(in.number, ",") \/ Contains(in.number, ".")
        \/ Contains(in.number, "/")
    THEN <<"(">> \o in.number \o <<")">>
    ELSE in.number

\* The number as to_id writes it: in parentheses when it holds ',', '.' or '/'
\* and the id_type is not classification.
to_id_number(in) ==
    IF (Contains(in.number, ",") \/ Contains(in.number, ".")
            \/ Contains(in.number, "/"))
        /\ in.id_type # "classification"
    THEN <<"(">> \o in.number \o <<")">>
    ELSE in.number

\* The parts of to_id: country, number, kind and date, those that are None
\* left out.
to_id_parts(in) ==
    SelectSeq(<<in.country, to_id_number(in), in.kind, in.date>>,
              LAMBDA part : part # NoText)

\* What APIInput.to_id() raises, or None.
to_id_check(in) ==
    IF in.id_type \in {"original", "docdb", "epodoc", "classification"}
    THEN None ELSE "ValueError"

\* APIInput.to_id(), when it returns.
to_id(in) ==
    IF in.id_type = "original"
    THEN ReplaceSpaces(Join(to_id_parts(in), <<".">>))
    ELSE IF in.id_type = "docdb"
    THEN Join(to_id_parts(in), <<".">>)
    ELSE IF in.id_type = "epodoc"
    THEN IF in.date # NoText
         THEN Join(SubSeq(to_id_parts(in), 1, Len(to_id_parts(in)) - 1), <<>>)
                \o <<".">> \o in.date
         ELSE Join(to_id_parts(in), <<>>)
    ELSE to_id_number(in)

----------------------------------------------------------------------------
\* The observation record.

\* No text: no 2xx response was read.
NoBody == [wpd |-> FALSE, tag |-> "-", status |-> "-"]

\* The result of an operation that raised.
NoResult == "-"

\* The arguments of an operation: service, ref_type and endpoint of fetch and
\* search (endpoints: the endpoint list of search; None: not given), ids: the
\* id_type of each input, kind: the class of the inputs, fetch_range: per
\* element whether it is an int, and its value, body: the text of the response
\* as get_publication reads it, key, secret, max_retries: of the constructor,
\* inputs: the APIInput objects, options: the constituents of fetch.
NoArgs ==
    [service |-> None, ref_type |-> None, endpoint |-> None, endpoints |-> <<>>,
     ids |-> <<>>, kind |-> None, fetch_range |-> <<>>, body |-> NoBody,
     key |-> None, secret |-> None, max_retries |-> 0,
     inputs |-> <<>>, options |-> <<>>]

\* What requests.get or requests.post is called with: the method, the url, the
\* data and the bounds of the X-OPS-Range header; NoRequest: neither is called.
NoRequest == [method |-> None, url |-> "", data |-> <<>>, range |-> <<>>]

\* op: the operation; outcome: "ok" or the exception it raised; bucket: the
\* bucket it dispatched to; start: the clock when it was invoked; next0: the
\* bucket's next_call read by _throttled_call; sleepArg: the duration given to
\* time.sleep; reqTime: the clock when the HTTP request was issued; nReq, nAuth:
\* the requests sent to the data service and to AUTH_URL; resp: the response
\* of the data service; token0: the client's token when it was invoked;
\* bearer: the token of the Authorization header prepared (0: no such header);
\* authStatus: the status of the authentication endpoint's answer (0: not
\* asked); ret: the Token a constructor's or a caller's authenticate() returned;
\* result: what the operation returned; sent: the request made; id: the text
\* to_id returned.
NoEvent ==
    [op |-> "none", outcome |-> "none", bucket |-> None, args |-> NoArgs,
     start |-> NoTime, next0 |-> NoTime, sleepArg |-> 0, reqTime |-> NoTime,
     nReq |-> 0, nAuth |-> 0, authStatus |-> 0, resp |-> NoResponse,
     token0 |-> NoToken, bearer |-> 0, ret |-> NoToken, result |-> NoResult,
     sent |-> NoRequest, id |-> <<>>]

\* The frame of a method of OPSConnection that calls the client in a loop: the
\* method op and its arguments, where it stands (pc: "loop" inside the loop,
\* "returned" or "raised" after it, with the exception in exc), the locals
\* fetch_range, num_publications and len(end_results) of search_published, the
\* ranges of the search calls made and the number of results parsed from each
\* page, the requests sent, the objects given to find_equivalents and the keys
\* of its mapping; and of find_fulltext the inputs in lacking_fulltext (by
\* their place in request_input), how many inputs _has_fulltext was asked
\* about, the equivalents found for each input of lacking_fulltext, the
\* substitutions, and how many equivalents of the input at hand were tried.
NoJob ==
    [op |-> None, pc |-> None, exc |-> None, args |-> NoArgs,
     fetch_range |-> <<>>, num_publications |-> 0, end_results |-> 0,
     ranges |-> <<>>, pages |-> <<>>, sent |-> <<>>, objects |-> <<>>,
     keys |-> {}, lacking |-> <<>>, asked |-> 0, found |-> <<>>,
     substitutions |-> <<>>, tried |-> 0]

\* The threads of an application that shares one client among two threads.
Threads == {"t1", "t2"}

\* The frame of _throttled_call in a thread: where the thread is in it (out:
\* not in it), the bucket, the locals next_call and the time the sleep ends,
\* the time the request was issued and the entry _next_call[service] held at
\* that time, and the exception raised.
NoFrame ==
    [pc |-> "out", service |-> None, next_call |-> NoTime, wake |-> NoTime,
     reqTime |-> NoTime, due |-> NoTime, exc |-> None]

----------------------------------------------------------------------------
\* EPOClient: the pure parts.

\* requests.Response.raise_for_status raises HTTPError for 4xx and 5xx.
RaisesForStatus(status) == status >= 400 /\ status < 600

\* A variant of raise_for_quota_rejection with the two quota errors exchanged.
raise_for_quota_rejection_swapped(resp) ==
    IF resp.status # 403 THEN None
    ELSE IF resp.rejection = "RegisteredQuotaPerWeek" THEN "QuotaPerHourExceeded"
    ELSE IF resp.rejection = "IndividualQuotaPerHour" THEN "QuotaPerWeekExceeded"
    ELSE None

\* raise_for_quota_rejection: the quota error it raises, or None when it returns.
raise_for_quota_rejection(resp) ==
    IF resp.status # 403 THEN None
    ELSE IF resp.rejection = None THEN None
    ELSE IF resp.rejection = "RegisteredQuotaPerWeek" THEN "QuotaPerWeekExceeded"
    ELSE IF resp.rejection = "IndividualQuotaPerHour" THEN "QuotaPerHourExceeded"
    ELSE None

\* What _throttled_call raises for a response, None on the success path: the
\* quota error or the HTTPError of a 4xx or 5xx response, and the division by
\* the rate of a 2xx response that reports 0 calls per minute.
ResponseError(resp) ==
    IF RaisesForStatus(resp.status)
    THEN IF resp.status = 403 /\ raise_for_quota_rejection(resp) # None
         THEN raise_for_quota_rejection(resp)
         ELSE "HTTPError"
    ELSE IF resp.rate = 0 THEN "ZeroDivisionError"
    ELSE None

\* Rates n for which the double (60.0 / n - int(60.0 / n)) * 1e3 falls just
\* below the whole number of milliseconds, so that int() yields one less
\* (evaluated with the source's expression for every n in 1..200000).
FloatShortfall == {25, 50}

\* next_delta of _throttled_call, in ms: timedelta(seconds, milliseconds) with
\* seconds = int(60.0 / n) and milliseconds = int((delay - seconds) * 1e3).
next_delta(n) ==
    LET seconds == 60 \div n
        milliseconds == ((60000 \div n) % 1000)
                            - (IF n \in FloatShortfall THEN 1 ELSE 0)
    IN  seconds * 1000 + milliseconds

\* A variant of the argument of time.sleep that leaves out diff.microseconds.
SleepArgSeconds(diff) == ((diff % DayMs) \div 1000) * 1000

\* The argument of time.sleep: diff.seconds + diff.microseconds / 1e6, in ms.
SleepArg(diff) == diff % DayMs

\* A variant of _throttled_call that repeats the request after a 5xx response.
RequestsIssuedRetrying(resp) == IF resp.status >= 500 THEN 2 ELSE 1

\* How many times _throttled_call invokes request(*args, **kwargs).
RequestsIssued(resp) == 1

\* Whether _throttled_call sleeps: next_call is not None and now < next_call.
MustSleep(next0, now) == next0 # NoTime /\ now < next0

\* The quota counters after a response: overwritten on the success path only.
QuotaAfter(resp, old) ==
    IF ResponseError(resp) = None THEN <<resp.hour, resp.week>> ELSE old

\* What is left of the state, and seen of the network, when no request is made.
NotCalled ==
    [exc |-> None, last_call |-> last_call, next_call |-> next_call,
     quota |-> <<quota_per_hour_used, quota_per_week_used>>,
     clock |-> clock, next0 |-> NoTime, slept |-> FALSE, sleepArg |-> 0,
     reqTime |-> NoTime, nReq |-> 0, resp |-> NoResponse,
     sent |-> NoRequest]

\* The exception a bucket name raises in _throttled_call before the request.
bucket_check(service) ==
    IF service \notin DOMAIN last_call THEN "ValueError" ELSE None

\* A variant of the dispatch that does not note the time of the call.
dispatch_unnoted(service, resp, over) ==
    LET next0  == next_call[service]
        now    == clock
        slept  == MustSleep(next0, now)
        arg    == IF slept THEN SleepArg(next0 - now) ELSE 0
        woke   == IF slept THEN now + arg + over ELSE now
        last1  == last_call
        exc    == ResponseError(resp)
        next1  == IF exc = None
                  THEN [next_call EXCEPT
                            ![service] = woke + next_delta(resp.rate)]
                  ELSE next_call
    IN  [exc |-> exc, last_call |-> last1, next_call |-> next1,
         quota |-> QuotaAfter(resp,
                        <<quota_per_hour_used, quota_per_week_used>>),
         clock |-> woke, next0 |-> next0, slept |-> slept, sleepArg |-> arg,
         reqTime |-> woke, nReq |-> RequestsIssued(resp), resp |-> resp,
         sent |-> NoRequest]

\* A variant of the dispatch that notes the time of the call before it sleeps.
dispatch_noted_before_sleep(service, resp, over) ==
    LET next0  == next_call[service]
        now    == clock
        slept  == MustSleep(next0, now)
        arg    == IF slept THEN SleepArg(next0 - now) ELSE 0
        woke   == IF slept THEN now + arg + over ELSE now
        last1  == [last_call EXCEPT ![service] = now]
        exc    == ResponseError(resp)
        next1  == IF exc = None
                  THEN [next_call EXCEPT
                            ![service] = last1[service] + next_delta(resp.rate)]
                  ELSE next_call
    IN  [exc |-> exc, last_call |-> last1, next_call |-> next1,
         quota |-> QuotaAfter(resp,
                        <<quota_per_hour_used, quota_per_week_used>>),
         clock |-> woke, next0 |-> next0, slept |-> slept, sleepArg |-> arg,
         reqTime |-> woke, nReq |-> RequestsIssued(resp), resp |-> resp,
         sent |-> NoRequest]

\* A variant of the dispatch that keeps one schedule for all the buckets.
dispatch_one_schedule(service, resp, over) ==
    LET next0  == next_call[service]
        now    == clock
        slept  == MustSleep(next0, now)
        arg    == IF slept THEN SleepArg(next0 - now) ELSE 0
        woke   == IF slept THEN now + arg + over ELSE now
        last1  == [last_call EXCEPT ![service] = woke]
        exc    == ResponseError(resp)
        next1  == IF exc = None
                  THEN [b \in DOMAIN next_call |->
                           last1[service] + next_delta(resp.rate)]
                  ELSE next_call
    IN  [exc |-> exc, last_call |-> last1, next_call |-> next1,
         quota |-> QuotaAfter(resp,
                        <<quota_per_hour_used, quota_per_week_used>>),
         clock |-> woke, next0 |-> next0, slept |-> slept, sleepArg |-> arg,
         reqTime |-> woke, nReq |-> RequestsIssued(resp), resp |-> resp,
         sent |-> NoRequest]

\* _throttled_call past its bucket check, for a bucket of the ledger, when the
\* service answers resp and time.sleep overshoots by over: the exception
\* raised (None: it returns the response) and the state it leaves.
dispatch(service, resp, over) ==
    LET next0  == next_call[service]
        now    == clock
        slept  == MustSleep(next0, now)
        arg    == IF slept THEN SleepArg(next0 - now) ELSE 0
        woke   == IF slept THEN now + arg + over ELSE now
        last1  == [last_call EXCEPT ![service] = woke]
        exc    == ResponseError(resp)
        next1  == IF exc = None
                  THEN [next_call EXCEPT
                            ![service] = last1[service] + next_delta(resp.rate)]
                  ELSE next_call
    IN  [exc |-> exc, last_call |-> last1, next_call |-> next1,
         quota |-> QuotaAfter(resp,
                        <<quota_per_hour_used, quota_per_week_used>>),
         clock |-> woke, next0 |-> next0, slept |-> slept, sleepArg |-> arg,
         reqTime |-> woke, nReq |-> RequestsIssued(resp), resp |-> resp,
         sent |-> NoRequest]

\* A variant of _throttled_call that files an unknown name under 'other'.
throttled_call_other(service, resp, over) ==
    dispatch(IF bucket_check(service) # None THEN "other" ELSE service,
             resp, over)

\* _throttled_call(service, request, ...) from the current state.
throttled_call(service, resp, over) ==
    IF bucket_check(service) # None
    THEN [NotCalled EXCEPT !.exc = bucket_check(service)]
    ELSE dispatch(service, resp, over)

\* The dispatch tc of post or get, with the method and the arguments that
\* _throttled_call hands to requests.post or requests.get.
Sent(tc, method, url, data, range) ==
    IF tc.nReq > 0
    THEN [tc EXCEPT !.sent = [method |-> method, url |-> url, data |-> data,
                              range |-> range]]
    ELSE tc

\* sep.join(strs) for a list of str.
RECURSIVE JoinStr(_, _)
JoinStr(strs, sep) ==
    IF strs = <<>> THEN ""
    ELSE IF Len(strs) = 1 THEN strs[1]
    ELSE strs[1] \o sep \o JoinStr(Tail(strs), sep)

URL_PREFIX == "https://ops.epo.org/3.1/rest-services"

\* A variant of build_ops_url that leaves out the parts that are None only.
build_ops_url_all(service, reference_type, id_type, endpoint, options) ==
    JoinStr(SelectSeq(<<URL_PREFIX, service, reference_type, id_type,
                        endpoint,
                        IF options = NoText THEN None
                        ELSE JoinStr(options, ",")>>,
                      LAMBDA part : part # None),
            "/")

\* build_ops_url(service, reference_type, id_type, endpoint, options): the
\* parts that are neither None nor empty, joined by '/'.  options is a list
\* of str, or NoText for None.
build_ops_url(service, reference_type, id_type, endpoint, options) ==
    JoinStr(SelectSeq(<<URL_PREFIX, service, reference_type, id_type,
                        endpoint,
                        IF options = NoText THEN None
                        ELSE JoinStr(options, ",")>>,
                      LAMBDA part : part # None /\ part # ""),
            "/")

\* A variant of authenticate without raise_for_status: a refused request
\* returns None.
authenticate_unraised(k, s, authResp) ==
    IF ~(Truthy(s) /\ Truthy(k))
    THEN [exc |-> None, token |-> NoToken, nAuth |-> 0, status |-> 0]
    ELSE IF RaisesForStatus(authResp.status)
    THEN [exc |-> None, token |-> NoToken, nAuth |-> 1,
          status |-> authResp.status]
    ELSE [exc |-> None, nAuth |-> 1, status |-> authResp.status,
          token |-> [token |-> issued + 1,
                     expires |-> clock + authResp.expires_in * 1000]]

\* authenticate(): the exception raised, the Token returned (NoToken: None)
\* and the number of posts to AUTH_URL.
authenticate(k, s, authResp) ==
    IF ~(Truthy(s) /\ Truthy(k))
    THEN [exc |-> None, token |-> NoToken, nAuth |-> 0, status |-> 0]
    ELSE IF RaisesForStatus(authResp.status)
    THEN [exc |-> "HTTPError", token |-> NoToken, nAuth |-> 1,
          status |-> authResp.status]
    ELSE [exc |-> None, nAuth |-> 1, status |-> authResp.status,
          token |-> [token |-> issued + 1,
                     expires |-> clock + authResp.expires_in * 1000]]

\* A variant of the refresh test that takes the instant of expiry as expired.
TokenExpiredAtExpiry(tok, now) == tok # NoToken /\ now >= tok.expires

\* Whether _make_headers refreshes the token: it is set and now > expires.
TokenExpired(tok, now) == tok # NoToken /\ now > tok.expires

\* _make_headers(): the exception raised, the token the client holds after it,
\* the Bearer value attached (0: no Authorization header) and the posts to
\* AUTH_URL.
make_headers(authResp) ==
    IF token = NoToken
    THEN [exc |-> None, token |-> token, bearer |-> 0, nAuth |-> 0,
          status |-> 0]
    ELSE IF TokenExpired(token, clock)
    THEN LET a == authenticate(key, secret, authResp)
         IN  IF a.exc # None
             THEN [exc |-> a.exc, token |-> token, bearer |-> 0,
                   nAuth |-> a.nAuth, status |-> a.status]
             ELSE IF a.token = NoToken
             THEN [exc |-> "AttributeError", token |-> NoToken, bearer |-> 0,
                   nAuth |-> a.nAuth, status |-> a.status]
             ELSE [exc |-> None, token |-> a.token, bearer |-> a.token.token,
                   nAuth |-> a.nAuth, status |-> a.status]
    ELSE [exc |-> None, token |-> token, bearer |-> token.token, nAuth |-> 0,
          status |-> 0]

----------------------------------------------------------------------------
\* The state machine.

Init ==
    /\ clock = 0
    /\ client = "unbuilt"
    /\ key = None
    /\ secret = None
    /\ token = NoToken
    /\ last_call = [b \in BucketNames |-> NoTime]
    /\ next_call = [b \in BucketNames |-> NoTime]
    /\ quota_per_hour_used = 0
    /\ quota_per_week_used = 0
    /\ issued = 0
    /\ calls = 0
    /\ ev = NoEvent
    /\ job = NoJob
    /\ callers = [c \in Threads |-> NoFrame]

Ready == ev = NoEvent
CanCall == Ready /\ job = NoJob /\ client = "built" /\ calls < MaxCalls

\* _check_epoclient_input: whether one of its assertions fails.
check_epoclient_input_fails(k, s, r) == ~IsStr(k) \/ ~IsStr(s) \/ r < 0

\* EPOClient.__init__(key=k, secret=s, max_retries=r): the exception raised,
\* the token assigned and the posts to AUTH_URL.
init(k, s, r, a) ==
    IF check_epoclient_input_fails(k, s, r)
    THEN [exc |-> "ValueError", token |-> NoToken, nAuth |-> 0, status |-> 0]
    ELSE IF Truthy(s) /\ Truthy(k)
    THEN authenticate(k, s, a)
    ELSE [exc |-> None, token |-> NoToken, nAuth |-> 0, status |-> 0]

Construct(k, s, r) ==
    /\ Ready
    /\ client = "unbuilt"
    /\ \E a \in IF init(k, s, r, NoAuthResponse).nAuth > 0
                THEN AuthResponses ELSE {NoAuthResponse} :
       LET c == init(k, s, r, a)
       IN  /\ client' = IF c.exc = None THEN "built" ELSE "failed"
           /\ key' = IF c.exc = None THEN k ELSE key
           /\ secret' = IF c.exc = None THEN s ELSE secret
           /\ token' = c.token
           /\ issued' = IF c.token # NoToken THEN issued + 1 ELSE issued
           /\ ev' = [NoEvent EXCEPT
                         !.op = "construct",
                         !.outcome = IF c.exc = None THEN "ok" ELSE c.exc,
                         !.args = [NoArgs EXCEPT !.key = k, !.secret = s,
                                                 !.max_retries = r],
                         !.start = clock, !.nAuth = c.nAuth,
                         !.authStatus = c.status, !.ret = c.token]
    /\ UNCHANGED <<callers, clock, last_call, next_call, quota_per_hour_used,
                   quota_per_week_used, calls, job>>

\* client.authenticate(), called by the user: the token is returned, not stored.
Authenticate ==
    /\ CanCall
    /\ \E a \in IF authenticate(key, secret, NoAuthResponse).nAuth > 0
                THEN AuthResponses ELSE {NoAuthResponse} :
       LET r == authenticate(key, secret, a)
       IN  /\ ev' = [NoEvent EXCEPT
                         !.op = "authenticate",
                         !.outcome = IF r.exc = None THEN "ok" ELSE r.exc,
                         !.start = clock, !.nAuth = r.nAuth,
                         !.authStatus = r.status, !.token0 = token,
                         !.ret = r.token,
                         !.result = IF r.exc # None THEN NoResult
                                    ELSE IF r.token = NoToken THEN "None"
                                    ELSE "Token"]
           /\ issued' = IF r.token # NoToken THEN issued + 1 ELSE issued
    /\ calls' = calls + 1
    /\ UNCHANGED <<callers, clock, client, key, secret, token, last_call,
                   next_call, quota_per_hour_used, quota_per_week_used, job>>

\* The headers of a get or post are the caller's own: no header preparation.
NoHeaders ==
    [exc |-> None, token |-> token, bearer |-> 0, nAuth |-> 0, status |-> 0]

\* The environment of one operation: the data service answers resp exactly
\* when a request reaches it, the authentication endpoint answers a exactly
\* when it is asked, and time.sleep overshoots only when it is called.
Environment(h, tc, resp, over, a) ==
    /\ (resp # NoResponse) <=> (tc.nReq > 0)
    /\ (a # NoAuthResponse) <=> (h.nAuth > 0)
    /\ (over # 0) => tc.slept

\* The environment's part in an operation. run is the operation as it goes
\* when nobody answers: it tells whether the authentication endpoint is asked,
\* whether a request reaches the data service, and whether time.sleep is
\* called.
AuthAnswers(run) ==
    IF run.h.nAuth > 0 THEN AuthResponses ELSE {NoAuthResponse}
Answers(run) == IF run.tc.nReq > 0 THEN Responses ELSE {NoResponse}
Overshoots(run) == IF run.tc.slept THEN Oversleep ELSE {0}

\* The state and the observation an operation op(args) leaves, with the headers
\* h it prepared, the dispatch tc it made through bucket service, the exception
\* exc it raised to its caller and the result it returned.
Returned(op, args, service, h, tc, exc, result) ==
    /\ clock' = tc.clock
    /\ last_call' = tc.last_call
    /\ next_call' = tc.next_call
    /\ quota_per_hour_used' = tc.quota[1]
    /\ quota_per_week_used' = tc.quota[2]
    /\ token' = h.token
    /\ issued' = IF h.token # token /\ h.token # NoToken
                 THEN issued + 1 ELSE issued
    /\ calls' = calls + 1
    /\ ev' = [op |-> op, outcome |-> IF exc = None THEN "ok" ELSE exc,
              bucket |-> service, args |-> args, start |-> clock,
              next0 |-> tc.next0, sleepArg |-> tc.sleepArg,
              reqTime |-> tc.reqTime, nReq |-> tc.nReq, nAuth |-> h.nAuth,
              authStatus |-> h.status,
              resp |-> tc.resp, token0 |-> token, bearer |-> h.bearer,
              ret |-> NoToken,
              result |-> IF exc = None THEN result ELSE NoResult,
              sent |-> tc.sent, id |-> <<>>]
    /\ UNCHANGED <<callers, client, key, secret>>

\* A get or a post as it goes when nobody answers.
Unanswered(service) ==
    [h |-> NoHeaders, tc |-> throttled_call(service, NoResponse, 0)]

\* client.get(service, ...).
Get(service) ==
    /\ CanCall
    /\ \E resp \in Answers(Unanswered(service)),
          over \in Overshoots(Unanswered(service)) :
       LET tc == Sent(throttled_call(service, resp, over), "GET", "", <<>>,
                      <<>>)
       IN  /\ Environment(NoHeaders, tc, resp, over, NoAuthResponse)
           /\ Returned("get", NoArgs, service, NoHeaders, tc, tc.exc,
                       "response")
           /\ UNCHANGED job

\* client.post(service, ...).
Post(service) ==
    /\ CanCall
    /\ \E resp \in Answers(Unanswered(service)),
          over \in Overshoots(Unanswered(service)) :
       LET tc == Sent(throttled_call(service, resp, over), "POST", "", <<>>,
                      <<>>)
       IN  /\ Environment(NoHeaders, tc, resp, over, NoAuthResponse)
           /\ Returned("post", NoArgs, service, NoHeaders, tc, tc.exc,
                       "response")
           /\ UNCHANGED job

\* A variant of fetch's checks that lets inputs of several id_types through.
fetch_check_unmatched(args) ==
    IF args.ref_type \notin ReferenceType
        \/ args.service \notin Services
        \/ args.endpoint \notin VALID_ENDPOINTS
    THEN "ValueError"
    ELSE IF args.ids = <<>>
    THEN "KeyError"
    ELSE None

\* What EPOClient.fetch raises before it prepares the headers, or None.
fetch_check(args) ==
    IF args.ref_type \notin ReferenceType
        \/ args.service \notin Services
        \/ args.endpoint \notin VALID_ENDPOINTS
        \/ Cardinality({args.ids[i] : i \in DOMAIN args.ids}) > 1
    THEN "ValueError"
    ELSE IF args.ids = <<>>
    THEN "KeyError"    \* id_types.pop() of the empty set
    ELSE None

\* A variant of the body of fetch's request that holds the first input only.
input_text_first(args) == to_id(args.inputs[1])

\* The body of fetch's request: the inputs' to_id(), joined by ','.
input_text(args) ==
    Join([i \in DOMAIN args.inputs |-> to_id(args.inputs[i])], <<",">>)

\* The url of fetch's request; id_types.pop() is the one id_type of the inputs.
fetch_url(args) ==
    build_ops_url(args.service, args.ref_type, args.ids[1], args.endpoint,
                  args.options)

\* The request fetch hands to post.
fetch_request(args) ==
    [method |-> "POST", url |-> fetch_url(args), data |-> input_text(args),
     range |-> <<>>]

\* A variant of fetch that lets the HTTPError of a 404 through.
fetch_unconverted(args, req, resp, over, a) ==
    IF fetch_check(args) # None
    THEN [exc |-> fetch_check(args), h |-> NoHeaders, tc |-> NotCalled]
    ELSE LET h == make_headers(a)
         IN  IF h.exc # None
             THEN [exc |-> h.exc, h |-> h, tc |-> NotCalled]
             ELSE LET tc == Sent(throttled_call("retrieval", resp, over),
                                 req.method, req.url, req.data, req.range)
                  IN  [exc |-> tc.exc, h |-> h, tc |-> tc]

\* EPOClient.fetch(service, ref_type, api_input, endpoint): the exception it
\* raises, the headers it prepared and the dispatch it made; req is the
\* request it hands to post, fetch_request(args).
fetch(args, req, resp, over, a) ==
    IF fetch_check(args) # None
    THEN [exc |-> fetch_check(args), h |-> NoHeaders, tc |-> NotCalled]
    ELSE LET h == make_headers(a)
         IN  IF h.exc # None
             THEN [exc |-> h.exc, h |-> h, tc |-> NotCalled]
             ELSE LET tc == Sent(throttled_call("retrieval", resp, over),
                                 req.method, req.url, req.data, req.range)
                  IN  [exc |-> IF tc.exc = "HTTPError" /\ tc.resp.status = 404
                               THEN "FetchFailed" ELSE tc.exc,
                       h |-> h, tc |-> tc]

Fetch(args) ==
    /\ CanCall
    /\ LET Sending(req) ==
               \E a \in AuthAnswers(fetch(args, req, NoResponse, 0,
                                          NoAuthResponse)) :
               \E resp \in Answers(fetch(args, req, NoResponse, 0, a)),
                  over \in Overshoots(fetch(args, req, NoResponse, 0, a)) :
               LET f == fetch(args, req, resp, over, a)
               IN  /\ Environment(f.h, f.tc, resp, over, a)
                   /\ Returned("fetch", args, "retrieval", f.h, f.tc, f.exc,
                               "response")
                   /\ UNCHANGED job
       IN  Sending(fetch_request(args))

\* Whether search raises ValueError for fetch_range: its length is not 2 and
\* all of its elements are ints.
invalid_fetch_range(r) ==
    ~(Len(r) = 2) /\ (\A i \in DOMAIN r : r[i].int)

\* A variant of search's checks that looks at the first endpoint of a list
\* only.
search_check_first(args) ==
    IF args.service \notin Services
        \/ (args.endpoints # <<>> /\ args.endpoints[1] \notin VALID_ENDPOINTS)
        \/ invalid_fetch_range(args.fetch_range)
    THEN "ValueError"
    ELSE IF Len(args.fetch_range) < 2
    THEN "IndexError"
    ELSE None

\* What EPOClient.search raises before it prepares the headers, or None.
search_check(args) ==
    IF args.service \notin Services
        \/ (\E i \in DOMAIN args.endpoints :
                args.endpoints[i] \notin VALID_ENDPOINTS)
        \/ invalid_fetch_range(args.fetch_range)
    THEN "ValueError"
    ELSE IF Len(args.fetch_range) < 2
    THEN "IndexError"    \* '{}-{}'.format(*fetch_range)
    ELSE None

\* The request search hands to post.
search_request(args) ==
    [method |-> "POST",
     url |-> build_ops_url(args.service, None, None, None, args.endpoints),
     data |-> <<>>,
     range |-> <<args.fetch_range[1].v, args.fetch_range[2].v>>]

\* EPOClient.search(query, fetch_range, service, endpoint); req is the request
\* it hands to post, search_request(args).
search(args, req, resp, over, a) ==
    IF search_check(args) # None
    THEN [exc |-> search_check(args), h |-> NoHeaders, tc |-> NotCalled]
    ELSE LET h == make_headers(a)
         IN  IF h.exc # None
             THEN [exc |-> h.exc, h |-> h, tc |-> NotCalled]
             ELSE LET tc == Sent(throttled_call("search", resp, over),
                                 req.method, req.url, req.data, req.range)
                  IN  [exc |-> tc.exc, h |-> h, tc |-> tc]

Search(args) ==
    /\ CanCall
    /\ LET Sending(req) ==
               \E a \in AuthAnswers(search(args, req, NoResponse, 0,
                                           NoAuthResponse)) :
               \E resp \in Answers(search(args, req, NoResponse, 0, a)),
                  over \in Overshoots(search(args, req, NoResponse, 0, a)) :
               LET f == search(args, req, resp, over, a)
               IN  /\ Environment(f.h, f.tc, resp, over, a)
                   /\ Returned("search", args, "search", f.h, f.tc, f.exc,
                               "response")
                   /\ UNCHANGED job
       IN  Sending(search_request(args))

\* The text of a response as get_publication reads it: whether it holds an
\* ops:world-patent-data tag, the first known document tag in it and that
\* tag's status attribute.
Bodies ==
    {[wpd |-> FALSE, tag |-> None, status |-> None],
     [wpd |-> TRUE, tag |-> None, status |-> None],
     [wpd |-> TRUE, tag |-> "exchange-document", status |-> None],
     [wpd |-> TRUE, tag |-> "exchange-document", status |-> "not found"],
     [wpd |-> TRUE, tag |-> "ftxt:fulltext-document", status |-> None],
     [wpd |-> TRUE, tag |-> "ops:fulltext-inquiry", status |-> None],
     [wpd |-> TRUE, tag |-> "ops:fulltext-inquiry", status |-> "not found"]}

\* The texts get_publication can read in the response resp.
Texts(resp) == IF ResponseError(resp) = None THEN Bodies ELSE {NoBody}

\* A variant of get_publication's reading of the text that does not look at
\* the status attribute.
unfold_any_status(body) ==
    IF ~body.wpd THEN [exc |-> None, result |-> "None"]
    ELSE IF body.tag = None
    THEN [exc |-> "UnknownDocumentFormat", result |-> NoResult]
    ELSE [exc |-> None, result |-> "documents"]

\* What get_publication makes of the text of a 2xx response: the exception it
\* raises (None: it returns) and what it returns.
unfold(body) ==
    IF ~body.wpd THEN [exc |-> None, result |-> "None"]
    ELSE IF body.tag = None
    THEN [exc |-> "UnknownDocumentFormat", result |-> NoResult]
    ELSE IF body.status = "not found"
    THEN [exc |-> "ResourceNotFound", result |-> NoResult]
    ELSE [exc |-> None, result |-> "documents"]

\* The arguments get_publication gives to fetch.
publication_fetch_args(args) ==
    [args EXCEPT !.service = "published-data", !.ref_type = "publication",
                 !.endpoint = IF args.endpoint = None
                              THEN "biblio" ELSE args.endpoint]

\* What get_publication raises before it prepares the headers, or None.
get_publication_check(args) ==
    IF args.kind \notin {"DocumentID", "APIInput"} THEN "ValueError"
    ELSE fetch_check(publication_fetch_args(args))

\* OPSConnection.get_publication(*request_inputs, **kwargs).
get_publication(args, req, resp, over, a) ==
    IF args.kind \notin {"DocumentID", "APIInput"}
    THEN [exc |-> "ValueError", h |-> NoHeaders, tc |-> NotCalled,
          result |-> NoResult]
    ELSE
    LET f == fetch(publication_fetch_args(args), req, resp, over, a)
        u == unfold(args.body)
    IN  IF f.exc = "HTTPError"
        THEN [exc |-> IF f.tc.resp.status = 404
                      THEN "ResourceNotFound" ELSE "HTTPError",
              h |-> f.h, tc |-> f.tc, result |-> NoResult]
        ELSE IF f.exc # None
        THEN [exc |-> f.exc, h |-> f.h, tc |-> f.tc, result |-> NoResult]
        ELSE [exc |-> u.exc, h |-> f.h, tc |-> f.tc, result |-> u.result]

GetPublication(input) ==
    /\ CanCall
    /\ LET Sending(req) ==
               \E a \in AuthAnswers(get_publication(input, req, NoResponse, 0,
                                                    NoAuthResponse)) :
               \E resp \in Answers(get_publication(input, req, NoResponse, 0,
                                                   a)),
                  over \in Overshoots(get_publication(input, req, NoResponse,
                                                      0, a)) :
               \E body \in Texts(resp) :
               LET args == [input EXCEPT !.body = body]
                   g == get_publication(args, req, resp, over, a)
               IN  /\ Environment(g.h, g.tc, resp, over, a)
                   /\ (args.body # NoBody) <=>
                          (g.tc.nReq > 0 /\ g.tc.exc = None)
                   /\ Returned("get_publication", args, "retrieval", g.h,
                               g.tc, g.exc, g.result)
                   /\ UNCHANGED job
       IN  Sending(fetch_request(publication_fetch_args(input)))

\* The caller takes the outcome and spends d ms before its next operation.
Idle(d) ==
    /\ ~Ready \/ job # NoJob
    /\ job.pc # "loop"
    /\ client = "built"
    /\ calls < MaxCalls
    /\ clock' = clock + d
    /\ ev' = NoEvent
    /\ job' = NoJob
    /\ UNCHANGED <<callers, client, key, secret, token, last_call,
                   next_call, quota_per_hour_used, quota_per_week_used,
                   issued, calls>>

----------------------------------------------------------------------------
\* The arguments and the environment the operations are run with.

Int_(v) == [int |-> TRUE, v |-> v]
Str_(v) == [int |-> FALSE, v |-> v]

\* The i-th input of a call, of the given id_type: EP 10 A1 first, then
\* EP 2,5 without a kind.
SampleInput(id_type, i) ==
    APIInput(id_type, IF i = 1 THEN <<"1", "0">> ELSE <<"2", ",", "5">>,
             IF i = 1 THEN <<"A", "1">> ELSE NoText, <<"E", "P">>, NoText)

SampleInputs(ids) == [i \in DOMAIN ids |-> SampleInput(ids[i], i)]

FetchArgs ==
    {[NoArgs EXCEPT !.service = x[1], !.ref_type = x[2], !.endpoint = x[3],
                    !.ids = x[4], !.kind = "APIInput",
                    !.inputs = SampleInputs(x[4]), !.options = x[5]] :
        x \in {<<"published-data", "publication", "", <<"epodoc">>, <<>>>>,
               <<"family", "priority", "biblio", <<"docdb", "docdb">>,
                 <<"full-cycle", "images">>>>,
               <<"published-data", "publication", "", <<"epodoc", "docdb">>,
                 <<>>>>,
               <<"published-data", "publication", "", <<>>, <<>>>>,
               <<"published-data", "publication", "full-cycle", <<"epodoc">>,
                 <<>>>>,
               <<"published-data", "bogus", "", <<"epodoc">>, <<>>>>,
               <<"bogus", "publication", "", <<"epodoc">>, <<>>>>}}

SearchArgs ==
    {[NoArgs EXCEPT !.service = x[1], !.endpoints = x[2],
                    !.fetch_range = x[3]] :
        x \in {<<"published-data/search", <<"">>, <<Int_(1), Int_(25)>>>>,
               <<"published-data/search", <<"biblio", "abstract">>,
                 <<Str_(1), Str_(2)>>>>,
               <<"published-data/search", <<"">>, <<Str_(1), Int_(2), Int_(3)>>>>,
               <<"published-data/search", <<"">>, <<Str_(1)>>>>,
               <<"published-data/search", <<"">>, <<Int_(1)>>>>,
               <<"published-data/search", <<"">>, <<>>>>,
               <<"published-data/search", <<"">>, <<Int_(1), Int_(2), Int_(3)>>>>,
               <<"published-data/search", <<"biblio", "full-cycle">>,
                 <<Int_(1), Int_(25)>>>>,
               <<"bogus", <<"">>, <<Int_(1), Int_(25)>>>>}}

GetPublicationArgs ==
    {[NoArgs EXCEPT !.kind = x[1], !.ids = x[2], !.endpoint = x[3],
                    !.inputs = SampleInputs(x[2])] :
        x \in {<<"APIInput", <<"epodoc">>, None>>,
               <<"DocumentID", <<"docdb", "docdb">>, "fulltext">>,
               <<"other", <<"epodoc">>, None>>,
               <<"DocumentID", <<>>, None>>}}

----------------------------------------------------------------------------
\* OPSConnection: the methods that call the client in a loop.  One call of the
\* client is one step; nothing else runs on the client until the method has
\* returned or raised.

\* How many more results than were asked for a page may hold.
Surplus == 20

\* num_publications=None.
NoCount == -1

Min(x, y) == IF x < y THEN x ELSE y

\* search_published: fetch_range and num_publications as the loop uses them.
effective_range(fetch_range, num_publications) ==
    IF num_publications # NoCount THEN <<1, num_publications>> ELSE fetch_range

effective_count(fetch_range, num_publications) ==
    IF num_publications # NoCount THEN num_publications
    ELSE fetch_range[2] - fetch_range[1] + 1

\* search_published is called.
SearchPublished(fetch_range, num_publications, endpoint) ==
    /\ CanCall
    /\ job' = [NoJob EXCEPT
                   !.op = "search_published", !.pc = "loop",
                   !.args = [NoArgs EXCEPT
                                 !.endpoint = endpoint,
                                 !.fetch_range = <<Int_(fetch_range[1]),
                                                   Int_(fetch_range[2])>>],
                   !.fetch_range =
                       effective_range(fetch_range, num_publications),
                   !.num_publications =
                       effective_count(fetch_range, num_publications)]
    /\ UNCHANGED <<callers, clock, client, key, secret, token, last_call, next_call,
                   quota_per_hour_used, quota_per_week_used, issued, calls, ev>>

\* start and end of the next page of search_published.
page_start(j) == j.fetch_range[1] + j.end_results
page_end(j) == Min(page_start(j) + 99, j.fetch_range[2])

\* The arguments search_published gives to client.search; the query is not
\* modelled, and but for the query the call is the same for every field.
page_args(j) ==
    [NoArgs EXCEPT !.service = "published-data/search",
                   !.endpoints = <<j.args.endpoint>>,
                   !.fetch_range = <<Int_(page_start(j)), Int_(page_end(j))>>]

\* The numbers of results that can be parsed from the text of a page asked
\* for w results.
PageResults(w) == {0, w - 1, w, w + Surplus} \ {-1}

\* The frame after a call of the client that raised exc with dispatch tc.
Raised(j, tc, exc) ==
    [j EXCEPT !.pc = "raised", !.exc = exc,
              !.sent = IF tc.nReq > 0 THEN Append(@, tc.sent) ELSE @]

\* One turn of search_published's loop: the search call, the parsing of its
\* response, and the test that leaves the loop.
SearchPublishedPage ==
    /\ job.op = "search_published" /\ job.pc = "loop"
    /\ job.end_results < job.num_publications
    /\ calls < MaxCalls
    /\ LET args == page_args(job)
           w    == page_end(job) - page_start(job) + 1
           j    == [job EXCEPT !.ranges = Append(@, <<page_start(job),
                                                      page_end(job)>>)]
           req  == search_request(args)
       IN  \E a \in AuthAnswers(search(args, req, NoResponse, 0,
                                       NoAuthResponse)) :
           \E resp \in Answers(search(args, req, NoResponse, 0, a)),
              over \in Overshoots(search(args, req, NoResponse, 0, a)) :
           LET f == search(args, req, resp, over, a)
           IN  /\ Environment(f.h, f.tc, resp, over, a)
               /\ Returned("search", args, "search", f.h, f.tc, f.exc,
                           "response")
               /\ IF f.exc # None
                  THEN job' = Raised(j, f.tc, f.exc)
                  ELSE \E n \in PageResults(w) :
                          job' = [j EXCEPT
                                      !.sent = Append(@, f.tc.sent),
                                      !.pages = Append(@, n),
                                      !.end_results = @ + n,
                                      !.pc = IF n = 0 \/ n < w
                                             THEN "returned" ELSE "loop"]

\* search_published leaves its loop by the loop's condition and returns
\* end_results and response; response is unbound when no search was made.
SearchPublishedReturn ==
    /\ job.op = "search_published" /\ job.pc = "loop"
    /\ ~(job.end_results < job.num_publications)
    /\ job' = IF job.ranges = <<>>
              THEN [job EXCEPT !.pc = "raised", !.exc = "UnboundLocalError"]
              ELSE [job EXCEPT !.pc = "returned"]
    /\ calls' = IF job.ranges = <<>> THEN calls + 1 ELSE calls
    /\ UNCHANGED <<callers, clock, client, key, secret, token, last_call, next_call,
                   quota_per_hour_used, quota_per_week_used, issued, ev>>

\* find_equivalents(*request_inputs) is called with inputs of class kind and
\* of the id_types ids; objs names the object each input is, so that the same
\* object can be given twice.  DocumentIDs are converted to new APIInputs.
FindEquivalents(kind, ids, objs) ==
    /\ CanCall
    /\ job' = IF kind \notin {"DocumentID", "APIInput"}
              THEN [NoJob EXCEPT !.op = "find_equivalents", !.pc = "raised",
                                 !.exc = "ValueError",
                                 !.args = [NoArgs EXCEPT !.kind = kind,
                                                         !.ids = ids]]
              ELSE [NoJob EXCEPT
                        !.op = "find_equivalents", !.pc = "loop",
                        !.args = [NoArgs EXCEPT
                                      !.kind = kind, !.ids = ids,
                                      !.inputs = [i \in DOMAIN ids |->
                                                     SampleInput(ids[i],
                                                                 objs[i])]],
                        !.objects = IF kind = "DocumentID"
                                    THEN [i \in DOMAIN ids |-> i] ELSE objs]
    /\ calls' = IF kind \notin {"DocumentID", "APIInput"}
                THEN calls + 1 ELSE calls
    /\ UNCHANGED <<callers, clock, client, key, secret, token, last_call, next_call,
                   quota_per_hour_used, quota_per_week_used, issued, ev>>

\* A variant of the arguments of find_equivalents' fetch that holds all the
\* inputs.
equivalents_fetch_args_batched(j, i) ==
    [j.args EXCEPT !.service = "published-data", !.ref_type = "publication",
                   !.endpoint = "equivalents", !.kind = "APIInput"]

\* The arguments find_equivalents gives to client.fetch for its i-th input.
equivalents_fetch_args(j, i) ==
    [j.args EXCEPT !.service = "published-data", !.ref_type = "publication",
                   !.endpoint = "equivalents", !.kind = "APIInput",
                   !.ids = <<j.args.ids[i]>>,
                   !.inputs = <<j.args.inputs[i]>>]

\* One turn of find_equivalents' loop: the fetch for the next input and the
\* entry of the mapping.
FindEquivalentsFetch ==
    /\ job.op = "find_equivalents" /\ job.pc = "loop"
    /\ Len(job.pages) < Len(job.objects)
    /\ calls < MaxCalls
    /\ LET i    == Len(job.pages) + 1
           args == equivalents_fetch_args(job, i)
           req  == fetch_request(args)
       IN  \E a \in AuthAnswers(fetch(args, req, NoResponse, 0,
                                      NoAuthResponse)) :
           \E resp \in Answers(fetch(args, req, NoResponse, 0, a)),
              over \in Overshoots(fetch(args, req, NoResponse, 0, a)) :
           LET f == fetch(args, req, resp, over, a)
           IN  /\ Environment(f.h, f.tc, resp, over, a)
               /\ Returned("fetch", args, "retrieval", f.h, f.tc, f.exc,
                           "response")
               /\ job' = IF f.exc # None
                         THEN Raised(job, f.tc, f.exc)
                         ELSE [job EXCEPT
                                   !.sent = Append(@, f.tc.sent),
                                   !.pages = Append(@, 0),
                                   !.keys = @ \cup {job.objects[i]}]

\* find_equivalents has gone through its inputs and returns equivalents and
\* response; response is unbound when there was no input.
FindEquivalentsReturn ==
    /\ job.op = "find_equivalents" /\ job.pc = "loop"
    /\ Len(job.pages) = Len(job.objects)
    /\ job' = IF job.objects = <<>>
              THEN [job EXCEPT !.pc = "raised", !.exc = "UnboundLocalError"]
              ELSE [job EXCEPT !.pc = "returned"]
    /\ calls' = IF job.objects = <<>> THEN calls + 1 ELSE calls
    /\ UNCHANGED <<callers, clock, client, key, secret, token, last_call, next_call,
                   quota_per_hour_used, quota_per_week_used, issued, ev>>

----------------------------------------------------------------------------
\* OPSConnection.find_fulltext.  One call of the client is one step, as is
\* one turn of a loop that calls nothing.

\* epo_utils.constants.HAS_FULLTEXT.
HAS_FULLTEXT ==
    {<<"E", "P">>, <<"W", "O">>, <<"A", "T">>, <<"C", "A">>, <<"C", "H">>,
     <<"G", "B">>, <<"E", "S">>}

\* The i-th input of find_fulltext, of the given country.
FulltextInput(country, i) ==
    [SampleInput("epodoc", i) EXCEPT !.country = country]

\* An equivalent of the given country, as find_equivalents returns it.
Equivalent(country) ==
    APIInput("docdb", <<"3", "0">>, <<"B", "1">>, country, NoText)

\* The places i of a list of inputs whose country is, or is not, one of
\* HAS_FULLTEXT.
Places(inputs, supported) ==
    SelectSeq([i \in DOMAIN inputs |-> i],
              LAMBDA i : (inputs[i].country \in HAS_FULLTEXT) <=> supported)

\* The elements of a sequence.
Elements(seq) == {seq[i] : i \in DOMAIN seq}

\* The equivalents of the k-th input of lacking_fulltext that are
\* in_correct_country.
Candidates(j, k) ==
    SelectSeq(j.found[k], LAMBDA c : c \in HAS_FULLTEXT)

\* What _has_fulltext makes of its get_publication call, observed as e, has
\* telling whether the inquiry lists the text asked for: "True", "False" or
\* the exception that leaves it.
has_fulltext(e, has) ==
    IF e.outcome = "FetchFailed" THEN "False"
    ELSE IF e.outcome # "ok" THEN e.outcome
    ELSE IF e.result # "documents" THEN "AttributeError"
    ELSE IF e.args.body.tag # "ops:fulltext-inquiry" THEN "AttributeError"
    ELSE IF has THEN "True" ELSE "False"

\* What `ft_dict, _ = self.get_publication(...)` and the next(...) after it
\* raise for the call observed as e, or None.
fulltext_instance(e) ==
    IF e.outcome # "ok" THEN e.outcome
    ELSE IF e.result # "documents" THEN "AttributeError"
    ELSE None

\* The frame after a call of the client, observed as e, that raised exc.
RaisedBy(j, e, exc) ==
    [j EXCEPT !.pc = "raised", !.exc = exc,
              !.sent = IF e.nReq > 0 THEN Append(@, e.sent) ELSE @]

\* The responses of the service to the calls of find_fulltext: a 200 that
\* allows 60 calls per minute, a 404 and a 403 for the hourly quota.
FulltextResponses ==
    {r \in Responses :
        /\ r.status \in {200, 403, 404}
        /\ r.rate = 60
        /\ r.rejection = IF r.status = 403
                         THEN "IndividualQuotaPerHour" ELSE None}

\* The service's part in a call of find_fulltext; Environment tells which of
\* the choices belong to the call as it goes.
FulltextAnswers == FulltextResponses \cup {NoResponse}

\* A call self.get_publication(input, endpoint=endpoint) of the method that is
\* running, input being of class kind.
CallsGetPublication(input, kind, endpoint) ==
    LET args0 == [NoArgs EXCEPT !.kind = kind, !.ids = <<input.id_type>>,
                                !.inputs = <<input>>, !.endpoint = endpoint]
        Going(args, g, resp, over, a) ==
            /\ Environment(g.h, g.tc, resp, over, a)
            /\ (args.body # NoBody) <=> (g.tc.nReq > 0 /\ g.tc.exc = None)
            /\ Returned("get_publication", args, "retrieval", g.h, g.tc,
                        g.exc, g.result)
        Reading(args, req, resp, over, a) ==
            Going(args, get_publication(args, req, resp, over, a), resp, over,
                  a)
        Sending(req) ==
            \E a \in AuthResponses \cup {NoAuthResponse},
               resp \in FulltextAnswers,
               over \in Oversleep \cup {0} :
            \E body \in Texts(resp) :
                Reading([args0 EXCEPT !.body = body], req, resp, over, a)
    IN  Sending(fetch_request(publication_fetch_args(args0)))

\* find_fulltext(request_input, endpoint) is called with a list of inputs of
\* class kind and of the given countries: the checks, and lacking_fulltext as
\* far as the countries tell.
FindFulltext(kind, countries, endpoint) ==
    /\ CanCall
    /\ LET inputs == [i \in DOMAIN countries |->
                         FulltextInput(countries[i], i)]
           args   == [NoArgs EXCEPT !.kind = kind, !.endpoint = endpoint,
                                    !.ids = [i \in DOMAIN countries |->
                                                "epodoc"],
                                    !.inputs = inputs]
       IN  job' = IF kind \notin {"DocumentID", "APIInput"}
                  THEN [NoJob EXCEPT !.op = "find_fulltext", !.pc = "raised",
                                     !.exc = "ValueError", !.args = args]
                  ELSE [NoJob EXCEPT !.op = "find_fulltext", !.pc = "loop",
                                     !.args = args,
                                     !.lacking = Places(inputs, FALSE)]
    /\ calls' = IF kind \notin {"DocumentID", "APIInput"}
                THEN calls + 1 ELSE calls
    /\ UNCHANGED <<callers, clock, client, key, secret, token, last_call,
                   next_call, quota_per_hour_used, quota_per_week_used,
                   issued, ev>>

\* Where find_fulltext stands.
AsksHasFulltext(j) ==
    /\ j.op = "find_fulltext" /\ j.pc = "loop"
    /\ j.asked < Len(Places(j.args.inputs, TRUE))
FindsEquivalents(j) ==
    /\ j.op = "find_fulltext" /\ j.pc = "loop"
    /\ j.asked = Len(Places(j.args.inputs, TRUE))
    /\ Len(j.found) < Len(j.lacking) \/ j.lacking = <<>>
Substitutes(j) ==
    /\ j.op = "find_fulltext" /\ j.pc = "loop"
    /\ j.asked = Len(Places(j.args.inputs, TRUE))
    /\ j.lacking # <<>> /\ Len(j.found) = Len(j.lacking)
    /\ Len(j.substitutions) < Len(j.lacking)
non_replaced(j) == DOMAIN j.args.inputs \ Elements(j.lacking)
Collects(j) ==
    /\ j.op = "find_fulltext" /\ j.pc = "loop"
    /\ j.asked = Len(Places(j.args.inputs, TRUE))
    /\ j.lacking # <<>> /\ Len(j.substitutions) = Len(j.lacking)
CollectsNonReplaced(j) ==
    Collects(j) /\ non_replaced(j) \ j.keys # {}
CollectsSubstitutions(j) ==
    /\ Collects(j) /\ non_replaced(j) \ j.keys = {}
    /\ Elements(j.lacking) \ j.keys # {}

\* The second list comprehension of lacking_fulltext: _has_fulltext for the
\* next input of a country of HAS_FULLTEXT.
FindFulltextAsks ==
    /\ AsksHasFulltext(job)
    /\ LET i == Places(job.args.inputs, TRUE)[job.asked + 1]
       IN  /\ CallsGetPublication(job.args.inputs[i], job.args.kind,
                                  "fulltext")
           /\ \E has \in BOOLEAN :
              LET r == has_fulltext(ev', has)
              IN  job' = IF r = "True" THEN [job EXCEPT !.asked = @ + 1]
                         ELSE IF r = "False"
                         THEN [job EXCEPT !.asked = @ + 1,
                                          !.lacking = Append(@, i)]
                         ELSE RaisedBy(job, ev', r)

\* find_equivalents(*lacking_fulltext) with no input: its return statement
\* reads response, which is unbound.
FindFulltextFindsNone ==
    /\ FindsEquivalents(job) /\ job.lacking = <<>>
    /\ job' = [job EXCEPT !.pc = "raised", !.exc = "UnboundLocalError"]
    /\ calls' = calls + 1
    /\ UNCHANGED <<callers, clock, client, key, secret, token, last_call,
                   next_call, quota_per_hour_used, quota_per_week_used,
                   issued, ev>>

\* Lists of equivalents, by country, that the service reports for an input.
EquivalentLists == {<<>>, <<<<"U", "S">>>>, <<<<"E", "P">>>>}

\* find_equivalents(*lacking_fulltext): the fetch for its next input and the
\* equivalents parsed from the response.
FindFulltextFindsEquivalents ==
    /\ FindsEquivalents(job) /\ job.lacking # <<>>
    /\ LET i    == job.lacking[Len(job.found) + 1]
           args == [job.args EXCEPT
                        !.service = "published-data",
                        !.ref_type = "publication",
                        !.endpoint = "equivalents", !.kind = "APIInput",
                        !.ids = <<job.args.ids[i]>>,
                        !.inputs = <<job.args.inputs[i]>>]
           Going(f, resp, over, a) ==
               /\ Environment(f.h, f.tc, resp, over, a)
               /\ Returned("fetch", args, "retrieval", f.h, f.tc, f.exc,
                           "response")
               /\ \E eqs \in EquivalentLists :
                      job' = IF f.exc # None
                             THEN Raised(job, f.tc, f.exc)
                             ELSE [job EXCEPT !.found = Append(@, eqs)]
           Sending(req) ==
               \E a \in AuthResponses \cup {NoAuthResponse},
                  resp \in FulltextAnswers,
                  over \in Oversleep \cup {0} :
                   Going(fetch(args, req, resp, over, a), resp, over, a)
       IN  Sending(fetch_request(args))

\* The loop over lacking_fulltext_eqv: _has_fulltext(eq, 'claims') for the
\* next equivalent of a country of HAS_FULLTEXT.
FindFulltextTriesEquivalent ==
    /\ Substitutes(job)
    /\ LET k == Len(job.substitutions) + 1
       IN  /\ job.tried < Len(Candidates(job, k))
           /\ LET eq == Candidates(job, k)[job.tried + 1]
              IN  /\ CallsGetPublication(Equivalent(eq), "DocumentID",
                                         "fulltext")
                  /\ \E has \in BOOLEAN :
                     LET r == has_fulltext(ev', has)
                     IN  job' = IF r = "True"
                                THEN [job EXCEPT
                                          !.substitutions = Append(@, eq),
                                          !.tried = 0]
                                ELSE IF r = "False"
                                THEN [job EXCEPT !.tried = @ + 1]
                                ELSE RaisedBy(job, ev', r)

\* The loop over lacking_fulltext_eqv: no equivalent is left to try, the
\* substitution is None.
FindFulltextSubstitutesNone ==
    /\ Substitutes(job)
    /\ job.tried = Len(Candidates(job, Len(job.substitutions) + 1))
    /\ job' = [job EXCEPT !.substitutions = Append(@, NoText), !.tried = 0]
    /\ UNCHANGED <<callers, clock, client, key, secret, token, last_call,
                   next_call, quota_per_hour_used, quota_per_week_used,
                   issued, calls, ev>>

\* The loop over non_replaced, a list made of a set: the text of an input
\* that has it.
FindFulltextCollects ==
    /\ CollectsNonReplaced(job)
    /\ \E i \in non_replaced(job) \ job.keys :
       /\ CallsGetPublication(job.args.inputs[i], job.args.kind,
                              job.args.endpoint)
       /\ job' = IF fulltext_instance(ev') # None
                 THEN RaisedBy(job, ev', fulltext_instance(ev'))
                 ELSE [job EXCEPT !.keys = @ \cup {i}]

\* The k-th input of lacking_fulltext that has no entry in results yet.
NextSubstituted(j) ==
    CHOOSE k \in DOMAIN j.lacking :
        /\ j.lacking[k] \notin j.keys
        /\ \A l \in 1..(k - 1) : j.lacking[l] \in j.keys

\* The loop over substitutions: the text of the substitution.
FindFulltextCollectsSubstitution ==
    /\ CollectsSubstitutions(job)
    /\ LET k == NextSubstituted(job)
       IN  /\ job.substitutions[k] # NoText
           /\ CallsGetPublication(Equivalent(job.substitutions[k]),
                                  "DocumentID", job.args.endpoint)
           /\ job' = IF fulltext_instance(ev') # None
                     THEN RaisedBy(job, ev', fulltext_instance(ev'))
                     ELSE [job EXCEPT !.keys = @ \cup {job.lacking[k]}]

\* The loop over substitutions: Result(None, None) for an input without one.
FindFulltextCollectsNone ==
    /\ CollectsSubstitutions(job)
    /\ job.substitutions[NextSubstituted(job)] = NoText
    /\ job' = [job EXCEPT
                   !.keys = @ \cup {job.lacking[NextSubstituted(job)]}]
    /\ UNCHANGED <<callers, clock, client, key, secret, token, last_call,
                   next_call, quota_per_hour_used, quota_per_week_used,
                   issued, calls, ev>>

\* return results.
FindFulltextReturn ==
    /\ Collects(job)
    /\ ~CollectsNonReplaced(job) /\ ~CollectsSubstitutions(job)
    /\ job' = [job EXCEPT !.pc = "returned"]
    /\ UNCHANGED <<callers, clock, client, key, secret, token, last_call,
                   next_call, quota_per_hour_used, quota_per_week_used,
                   issued, calls, ev>>

\* kind, countries and endpoint of the calls of find_fulltext.
FindFulltextArgs ==
    {<<"APIInput", <<<<"E", "P">>>>, "claims">>,
     <<"APIInput", <<<<"U", "S">>>>, "description">>,
     <<"APIInput", <<<<"E", "P">>, <<"U", "S">>>>, "claims">>,
     <<"other", <<<<"E", "P">>>>, "claims">>}

\* fetch_range, num_publications and endpoint of the calls of search_published.
SearchPublishedArgs ==
    {<<<<1, 25>>, NoCount, "">>,
     <<<<1, 150>>, NoCount, "biblio">>,
     <<<<1, 25>>, 250, "">>,
     <<<<5, 4>>, NoCount, "">>,
     <<<<1, 25>>, NoCount, "full-cycle">>}

\* kind, ids and objs of the calls of find_equivalents.
FindEquivalentsArgs ==
    {<<"APIInput", <<"docdb", "docdb">>, <<1, 2>>>>,
     <<"APIInput", <<"epodoc", "docdb">>, <<1, 2>>>>,
     <<"APIInput", <<"docdb", "docdb">>, <<1, 1>>>>,
     <<"DocumentID", <<"epodoc">>, <<1>>>>,
     <<"other", <<"epodoc">>, <<1>>>>,
     <<"APIInput", <<>>, <<>>>>}

NextConnection ==
    \/ \E k \in Credentials, s \in Credentials, r \in RetryCounts :
          Construct(k, s, r)
    \/ \E x \in SearchPublishedArgs : SearchPublished(x[1], x[2], x[3])
    \/ SearchPublishedPage
    \/ SearchPublishedReturn
    \/ \E x \in FindEquivalentsArgs : FindEquivalents(x[1], x[2], x[3])
    \/ FindEquivalentsFetch
    \/ FindEquivalentsReturn
    \/ \E d \in Pauses : Idle(d)

SpecConnection == Init /\ [][NextConnection]_vars

\* find_fulltext on a client that has made no call yet.
NextFulltext ==
    \/ \E k \in {"", "k"} : Construct(k, k, 0)
    \/ \E x \in FindFulltextArgs : FindFulltext(x[1], x[2], x[3])
    \/ FindFulltextAsks
    \/ FindFulltextFindsNone
    \/ FindFulltextFindsEquivalents
    \/ FindFulltextTriesEquivalent
    \/ FindFulltextSubstitutesNone
    \/ FindFulltextCollects
    \/ FindFulltextCollectsSubstitution
    \/ FindFulltextCollectsNone
    \/ FindFulltextReturn
    \/ \E d \in Pauses : Idle(d)

SpecFulltext == Init /\ [][NextFulltext]_vars

Next ==
    \/ \E k \in Credentials, s \in Credentials, r \in RetryCounts :
          Construct(k, s, r)
    \/ Authenticate
    \/ \E service \in BucketArgs : Get(service)
    \/ \E service \in BucketArgs : Post(service)
    \/ \E args \in FetchArgs : Fetch(args)
    \/ \E args \in SearchArgs : Search(args)
    \/ \E input \in GetPublicationArgs : GetPublication(input)
    \/ \E d \in Pauses : Idle(d)

Spec == Init /\ [][Next]_vars

----------------------------------------------------------------------------
\* APIInput on its own: an object is constructed from arguments of the sets
\* below, its id_type may be assigned, and to_id is called on it.

IdTypes == VALID_IDTYPES \cup {"bogus"}

Numbers ==
    {<<"1", "0">>, <<"1", ",", "5">>, <<"1", ".", "5">>, <<"1", "/", "5">>,
     <<"1", " ", "0">>, <<>>}

Kinds == {NoText, <<"A", "1">>, <<" ">>, <<>>}

Countries == {NoText, <<"E", "P">>, <<" ">>, <<>>}

\* None, 20200101, and dates that are not YYYYMMDD: too short, with a space
\* for a digit, 30 February, with dashes, month 13.
Dates ==
    {NoText,
     <<"2", "0", "2", "0", "0", "1", "0", "1">>,
     <<"2", "0", "2", "0", "1", "0", "1">>,
     <<"2", "0", "2", "0", "0", "1", " ", "5">>,
     <<"2", "0", "2", "0", "0", "2", "3", "0">>,
     <<"2", "0", "2", "0", "-", "1", "-", "1">>,
     <<"2", "0", "2", "0", "1", "3", "0", "1">>}

\* APIInput(id_type, number, kind, country, date): args.inputs holds the
\* arguments, and the object when the constructor returns.
NewAPIInput(id_type, number, kind, country, date) ==
    /\ ev = NoEvent
    /\ client = "unbuilt"
    /\ ev' = [NoEvent EXCEPT
                  !.op = "APIInput",
                  !.outcome =
                      IF api_input_check(id_type, number, kind, country,
                                         date) = None
                      THEN "ok"
                      ELSE api_input_check(id_type, number, kind, country,
                                           date),
                  !.args = [NoArgs EXCEPT
                                !.kind = "APIInput",
                                !.inputs = <<APIInput(id_type, number, kind,
                                                      country, date)>>]]
    /\ UNCHANGED <<callers, clock, client, key, secret, token, last_call, next_call,
                   quota_per_hour_used, quota_per_week_used, issued, calls,
                   job>>

\* api_input.id_type = t, on an object that was constructed.
SetIdType(t) ==
    /\ ev.op = "APIInput" /\ ev.outcome = "ok"
    /\ ev' = [ev EXCEPT !.op = "id_type", !.args.inputs[1].id_type = t]
    /\ UNCHANGED <<callers, clock, client, key, secret, token, last_call, next_call,
                   quota_per_hour_used, quota_per_week_used, issued, calls,
                   job>>

\* api_input.to_id().
ToId ==
    /\ ev.op \in {"APIInput", "id_type"} /\ ev.outcome = "ok"
    /\ ev' = [ev EXCEPT
                  !.op = "to_id",
                  !.outcome = IF to_id_check(ev.args.inputs[1]) = None
                              THEN "ok" ELSE to_id_check(ev.args.inputs[1]),
                  !.id = IF to_id_check(ev.args.inputs[1]) = None
                         THEN to_id(ev.args.inputs[1]) ELSE <<>>]
    /\ UNCHANGED <<callers, clock, client, key, secret, token, last_call, next_call,
                   quota_per_hour_used, quota_per_week_used, issued, calls,
                   job>>

NextAPIInput ==
    \/ \E id_type \in IdTypes, number \in Numbers, kind \in Kinds,
          country \in Countries, date \in Dates :
          NewAPIInput(id_type, number, kind, country, date)
    \/ \E t \in IdTypes : SetIdType(t)
    \/ ToId

SpecAPIInput == Init /\ [][NextAPIInput]_vars

----------------------------------------------------------------------------
\* build_ops_url on its own: it is called once with arguments of the sets
\* below.

UrlServices == {None, "published-data", "family"}
UrlReferenceTypes == {None, "publication"}
UrlIdTypes == {None, "", "epodoc"}
UrlEndpoints == {None, "", "biblio"}
UrlOptions ==
    {NoText, <<>>, <<"">>, <<"full-cycle">>, <<"full-cycle", "images">>}

\* build_ops_url(service, reference_type, id_type, endpoint, options):
\* args.ids holds id_type, sent.url the url returned.
BuildOpsUrl(service, reference_type, id_type, endpoint, options) ==
    /\ ev = NoEvent
    /\ client = "unbuilt"
    /\ ev' = [NoEvent EXCEPT
                  !.op = "build_ops_url", !.outcome = "ok",
                  !.args = [NoArgs EXCEPT
                                !.service = service,
                                !.ref_type = reference_type,
                                !.ids = <<id_type>>,
                                !.endpoint = endpoint,
                                !.options = options],
                  !.sent = [NoRequest EXCEPT
                                !.url = build_ops_url(service, reference_type,
                                                      id_type, endpoint,
                                                      options)]]
    /\ UNCHANGED <<callers, clock, client, key, secret, token, last_call, next_call,
                   quota_per_hour_used, quota_per_week_used, issued, calls,
                   job>>

NextBuildOpsUrl ==
    \E service \in UrlServices, reference_type \in UrlReferenceTypes,
       id_type \in UrlIdTypes, endpoint \in UrlEndpoints,
       options \in UrlOptions :
       BuildOpsUrl(service, reference_type, id_type, endpoint, options)

SpecBuildOpsUrl == Init /\ [][NextBuildOpsUrl]_vars

----------------------------------------------------------------------------
\* Two threads that call one client. _throttled_call takes no lock, so its
\* statements interleave: each action is one statement, or one blocking call,
\* of one thread.

\* Bucket names the threads pass.
ThreadServices == {"search", "retrieval", "unknown"}

\* The frames when thread t has moved to frame f.
Moved(t, f) == [callers EXCEPT ![t] = f]

\* Thread t, d ms after the last thing that happened, calls
\* _throttled_call(service, ...): the bucket check.
EnterThrottledCall(t, service, d) ==
    /\ client = "built"
    /\ calls < MaxCalls
    /\ callers[t].pc = "out"
    /\ clock' = clock + d
    /\ calls' = calls + 1
    /\ callers' = Moved(t,
           IF bucket_check(service) # None
           THEN [NoFrame EXCEPT !.pc = "returned", !.service = service,
                                !.exc = bucket_check(service)]
           ELSE [NoFrame EXCEPT !.pc = "read", !.service = service])
    /\ UNCHANGED <<client, key, secret, token, last_call, next_call,
                   quota_per_hour_used, quota_per_week_used, issued, ev, job>>

\* next_call = self._next_call[service]; now = datetime.now(); and the test
\* that decides whether the thread sleeps.
ReadNextCall(t) ==
    /\ callers[t].pc = "read"
    /\ LET next0 == next_call[callers[t].service]
       IN  callers' = Moved(t,
               IF MustSleep(next0, clock)
               THEN [callers[t] EXCEPT
                         !.pc = "sleep", !.next_call = next0,
                         !.wake = clock + SleepArg(next0 - clock)]
               ELSE [callers[t] EXCEPT !.pc = "note", !.next_call = next0])
    /\ UNCHANGED <<clock, client, key, secret, token, last_call, next_call,
                   quota_per_hour_used, quota_per_week_used, issued, calls,
                   ev, job>>

\* time.sleep returns in thread t, over ms late: it is then at least the time
\* the thread slept until.
Sleep(t, over) ==
    /\ callers[t].pc = "sleep"
    /\ clock' = IF clock > callers[t].wake + over
                THEN clock ELSE callers[t].wake + over
    /\ callers' = Moved(t, [callers[t] EXCEPT !.pc = "note"])
    /\ UNCHANGED <<client, key, secret, token, last_call, next_call,
                   quota_per_hour_used, quota_per_week_used, issued, calls,
                   ev, job>>

\* self._last_call[service] = datetime.now().
NoteLastCall(t) ==
    /\ callers[t].pc = "note"
    /\ last_call' = [last_call EXCEPT ![callers[t].service] = clock]
    /\ callers' = Moved(t, [callers[t] EXCEPT !.pc = "request"])
    /\ UNCHANGED <<clock, client, key, secret, token, next_call,
                   quota_per_hour_used, quota_per_week_used, issued, calls,
                   ev, job>>

\* request(*args, **kwargs) is called: the request is under way until the
\* response is there.
Request(t) ==
    /\ callers[t].pc = "request"
    /\ callers' = Moved(t, [callers[t] EXCEPT
                               !.pc = "flight", !.reqTime = clock,
                               !.due = next_call[callers[t].service]])
    /\ UNCHANGED <<clock, client, key, secret, token, last_call, next_call,
                   quota_per_hour_used, quota_per_week_used, issued, calls,
                   ev, job>>

\* The response resp is there: the rest of _throttled_call, which raises or
\* sets _next_call[service] from _last_call[service] and the quota counters.
TakeResponse(t, resp) ==
    /\ callers[t].pc = "flight"
    /\ LET service == callers[t].service
           exc     == ResponseError(resp)
           quota   == QuotaAfter(resp,
                          <<quota_per_hour_used, quota_per_week_used>>)
       IN  /\ next_call' =
                  IF exc = None
                  THEN [next_call EXCEPT
                            ![service] = last_call[service]
                                             + next_delta(resp.rate)]
                  ELSE next_call
           /\ quota_per_hour_used' = quota[1]
           /\ quota_per_week_used' = quota[2]
           /\ callers' = Moved(t, [callers[t] EXCEPT
                                      !.pc = "returned", !.exc = exc])
    /\ UNCHANGED <<clock, client, key, secret, token, last_call, issued,
                   calls, ev, job>>

\* The thread takes the response or the exception.
LeaveThrottledCall(t) ==
    /\ callers[t].pc = "returned"
    /\ callers' = Moved(t, NoFrame)
    /\ UNCHANGED <<clock, client, key, secret, token, last_call, next_call,
                   quota_per_hour_used, quota_per_week_used, issued, calls,
                   ev, job>>

NextThreads ==
    \/ Construct("", "", 0)
    \/ \E t \in Threads, service \in ThreadServices, d \in Pauses :
           EnterThrottledCall(t, service, d)
    \/ \E t \in Threads : ReadNextCall(t)
    \/ \E t \in Threads, over \in Oversleep : Sleep(t, over)
    \/ \E t \in Threads : NoteLastCall(t)
    \/ \E t \in Threads : Request(t)
    \/ \E t \in Threads, resp \in Responses : TakeResponse(t, resp)
    \/ \E t \in Threads : LeaveThrottledCall(t)

SpecThreads == Init /\ [][NextThreads]_vars

----------------------------------------------------------------------------
\* The throttle ledger.

\* C1: the HTTP request of a get or post dispatch is never issued before the
\* next_call of its bucket that was read when the dispatch started; when that
\* time lay in the future the call slept for the remaining duration, and a
\* dispatch to a bucket with no next_call recorded did not sleep.
ThrottleRespected ==
    (ev.op \in {"get", "post"} /\ ev.nReq > 0) =>
        /\ (ev.next0 # NoTime) => (ev.reqTime >= ev.next0)
        /\ (ev.next0 # NoTime /\ ev.start < ev.next0)
                => (ev.sleepArg = ev.next0 - ev.start)
        /\ (ev.next0 = NoTime) => (ev.sleepArg = 0 /\ ev.reqTime = ev.start)

\* A post that found its bucket's next_call in the future and slept.
ThrottleSlept ==
    /\ ev.op = "post" /\ ev.nReq > 0
    /\ ev.next0 # NoTime /\ ev.start < ev.next0
    /\ ev.sleepArg > 0 /\ ev.reqTime >= ev.next0

\* C2: after a dispatch whose response reports n calls per minute, the bucket's
\* next_call is its last_call plus 60/n seconds exactly, for every n >= 1:
\* n times the recorded delay is the whole minute.
DelayIsMinuteOverRate ==
    (ev.nReq > 0 /\ ev.outcome = "ok") =>
        (next_call[ev.bucket] - last_call[ev.bucket]) * ev.resp.rate = 60000

\* C3: a get or post to a name outside the ledger's buckets raises ValueError
\* with no HTTP request and no sleep, and leaves the ledger, both quota
\* counters and the token as they were.
UnknownBucketRejected ==
    [][(ev'.op \in {"get", "post"} /\ ev'.bucket \notin BucketNames) =>
          /\ ev'.outcome = "ValueError"
          /\ ev'.nReq = 0 /\ ev'.sleepArg = 0 /\ clock' = clock
          /\ UNCHANGED <<last_call, next_call, quota_per_hour_used,
                         quota_per_week_used, token>>]_vars

\* A get to an unknown bucket raised ValueError on a client whose ledger and
\* counters an earlier dispatch had filled.
UnknownBucketSeen ==
    /\ ev.op = "get" /\ ev.bucket = "unknown" /\ ev.outcome = "ValueError"
    /\ \E b \in BucketNames : next_call[b] # NoTime
    /\ quota_per_hour_used > 0

----------------------------------------------------------------------------
\* The quota counters.

\* C4: the counters change only by a response, and then to the hourly and
\* weekly values that response reports, whatever they were before: they always
\* equal the values of the most recent response.
QuotaIsLatestResponse ==
    [][/\ (ev'.nReq > 0) => /\ quota_per_hour_used' = ev'.resp.hour
                            /\ quota_per_week_used' = ev'.resp.week
       /\ (ev'.nReq = 0) => UNCHANGED <<quota_per_hour_used,
                                        quota_per_week_used>>]_vars

\* C5: after a dispatch that ends in a 4xx or 5xx response, the counters hold
\* the values reported in that response's quota headers.
QuotaOverwrittenOnError ==
    (ev.nReq > 0 /\ RaisesForStatus(ev.resp.status)) =>
        /\ quota_per_hour_used = ev.resp.hour
        /\ quota_per_week_used = ev.resp.week

----------------------------------------------------------------------------
\* Error responses.

\* C6: a dispatch answered 403 raises QuotaPerWeekExceeded for the rejection
\* reason RegisteredQuotaPerWeek, QuotaPerHourExceeded for
\* IndividualQuotaPerHour and HTTPError for any other or no reason; a dispatch
\* answered with another status raises neither quota error.
QuotaRejectionMapped ==
    (ev.op \in {"get", "post"} /\ ev.nReq > 0) =>
        /\ (ev.resp.status = 403) =>
              ev.outcome =
                 IF ev.resp.rejection = "RegisteredQuotaPerWeek"
                 THEN "QuotaPerWeekExceeded"
                 ELSE IF ev.resp.rejection = "IndividualQuotaPerHour"
                 THEN "QuotaPerHourExceeded"
                 ELSE "HTTPError"
        /\ (ev.resp.status # 403) =>
              ev.outcome \notin {"QuotaPerWeekExceeded", "QuotaPerHourExceeded"}

\* A get answered 403 with the hourly rejection reason raised the hourly error.
QuotaRejectionSeen ==
    /\ ev.op = "get" /\ ev.nReq > 0 /\ ev.resp.status = 403
    /\ ev.resp.rejection = "IndividualQuotaPerHour"
    /\ ev.outcome = "QuotaPerHourExceeded"

----------------------------------------------------------------------------
\* Authentication.

\* C9 (construction): a client constructed without a key or without a secret
\* is constructed, and without a request to the authentication endpoint.
ConstructsWithoutCredentials ==
    (ev.op = "construct" /\ ev.args.max_retries >= 0
        /\ ~(Truthy(ev.args.key) /\ Truthy(ev.args.secret))) =>
            (ev.outcome = "ok" /\ ev.nAuth = 0)

\* C10: a fetch or search of a client that holds a token, when it prepares its
\* headers after the token's expiry (now > expires), asks the authentication
\* endpoint once before any data request, and the data request carries the new
\* token, which the client then holds; at or before the expiry it does not ask
\* the authentication endpoint and the data request carries the token held.
TokenRefreshedWhenExpired ==
    (ev.op \in {"fetch", "search"} /\ ev.token0 # NoToken) =>
        IF ev.start > ev.token0.expires
        THEN (ev.nAuth > 0 \/ ev.nReq > 0) =>
                /\ ev.nAuth = 1
                /\ (ev.nReq > 0) => /\ token # ev.token0
                                    /\ token.expires >= ev.start
                                    /\ ev.bearer = token.token
                                    /\ ev.bearer # ev.token0.token
                /\ (ev.nReq = 0) => (ev.outcome = "HTTPError"
                                        /\ token = ev.token0)
        ELSE /\ ev.nAuth = 0
             /\ token = ev.token0
             /\ (ev.nReq > 0) => (ev.bearer = ev.token0.token)

\* A search found the token expired, fetched a new one and sent it.
TokenRefreshSeen ==
    /\ ev.op = "search" /\ ev.token0 # NoToken
    /\ ev.start > ev.token0.expires
    /\ ev.nAuth = 1 /\ ev.nReq = 1
    /\ token # ev.token0 /\ ev.bearer = token.token

\* C11: an operation whose request to the authentication endpoint is answered
\* 4xx or 5xx raises HTTPError; when that happens in the header preparation of
\* a fetch or a search, no data request is sent and the token, the ledger and
\* both quota counters are left as they were.
AuthFailureAborts ==
    [][RaisesForStatus(ev'.authStatus) =>
          /\ ev'.outcome = "HTTPError"
          /\ (ev'.op \in {"fetch", "search"}) =>
                /\ ev'.nReq = 0 /\ ev'.sleepArg = 0
                /\ UNCHANGED <<token, last_call, next_call,
                               quota_per_hour_used, quota_per_week_used>>]_vars

\* A search whose token refresh was refused, on a client that holds a token
\* and has dispatched before.
AuthFailureSeen ==
    /\ ev.op = "search" /\ ev.authStatus = 401 /\ ev.outcome = "HTTPError"
    /\ ev.nReq = 0 /\ token = ev.token0 /\ token # NoToken
    /\ \E b \in BucketNames : last_call[b] # NoTime

----------------------------------------------------------------------------
\* fetch and search.

\* C12: a fetch of inputs with two or more distinct id_types raises ValueError
\* before the headers are prepared: the authentication endpoint is not asked,
\* no request is sent, and the token, the ledger and both quota counters are
\* left as they were.
MismatchedIdTypesRejected ==
    [][(ev'.op = "fetch"
          /\ Cardinality({ev'.args.ids[i] : i \in DOMAIN ev'.args.ids}) > 1) =>
          /\ ev'.outcome = "ValueError"
          /\ ev'.nAuth = 0 /\ ev'.nReq = 0 /\ ev'.sleepArg = 0
          /\ UNCHANGED <<token, last_call, next_call,
                         quota_per_hour_used, quota_per_week_used>>]_vars

\* A fetch of an epodoc and a docdb input was rejected on a client whose token
\* had expired.
MismatchedIdTypesSeen ==
    /\ ev.op = "fetch" /\ ev.args.ids = <<"epodoc", "docdb">>
    /\ ev.outcome = "ValueError"
    /\ TokenExpired(ev.token0, ev.start) /\ token = ev.token0

\* C13 as stated: a fetch that passes its checks sends exactly one POST
\* through the retrieval bucket, with the inputs' to_id() joined by ',' as its
\* body and the url built from service, reference type, id_type, endpoint and
\* options, and changes no other bucket's record.
FetchAlwaysDispatches ==
    [][(ev'.op = "fetch" /\ fetch_check(ev'.args) = None) =>
          /\ ev'.nReq = 1 /\ ev'.bucket = "retrieval"
          /\ ev'.sent.method = "POST"
          /\ ev'.sent.data =
                Join([i \in DOMAIN ev'.args.inputs |->
                         to_id(ev'.args.inputs[i])], <<",">>)
          /\ ev'.sent.url =
                build_ops_url(ev'.args.service, ev'.args.ref_type,
                              ev'.args.inputs[1].id_type, ev'.args.endpoint,
                              ev'.args.options)
          /\ \A b \in BucketNames \ {"retrieval"} :
                last_call'[b] = last_call[b] /\ next_call'[b] = next_call[b]]_vars

\* C13: a fetch that passes its checks, and whose token refresh (if it makes
\* one) is not refused, sends exactly one POST through the retrieval bucket,
\* with the inputs' to_id() joined by ',' in input order as its body and the
\* url built from service, reference type, the shared id_type, endpoint and
\* options; a fetch that passes its checks changes no other bucket's record.
FetchDispatchesOnce ==
    [][(ev'.op = "fetch" /\ fetch_check(ev'.args) = None) =>
          /\ ~RaisesForStatus(ev'.authStatus) =>
                /\ ev'.nReq = 1 /\ ev'.bucket = "retrieval"
                /\ ev'.sent.method = "POST"
                /\ ev'.sent.data =
                      Join([i \in DOMAIN ev'.args.inputs |->
                               to_id(ev'.args.inputs[i])], <<",">>)
                /\ ev'.sent.url =
                      build_ops_url(ev'.args.service, ev'.args.ref_type,
                                    ev'.args.inputs[1].id_type,
                                    ev'.args.endpoint, ev'.args.options)
          /\ RaisesForStatus(ev'.authStatus) => ev'.nReq = 0
          /\ \A b \in BucketNames \ {"retrieval"} :
                last_call'[b] = last_call[b] /\ next_call'[b] = next_call[b]]_vars

\* A fetch from the family service of two docdb inputs was sent as one POST,
\* on a client that had dispatched to the search bucket.
FetchDispatchSeen ==
    /\ ev.op = "fetch" /\ ev.args.service = "family" /\ ev.nReq = 1
    /\ ev.bucket = "retrieval" /\ ev.sent.method = "POST"
    /\ ev.sent.data = <<"E", "P", ".", "1", "0", ".", "A", "1", ",",
                        "E", "P", ".", "(", "2", ",", "5", ")">>
    /\ ev.sent.url = "https://ops.epo.org/3.1/rest-services/family/priority/"
                        \o "docdb/biblio/full-cycle,images"
    /\ last_call["search"] # NoTime /\ last_call["retrieval"] = ev.reqTime

\* C14: a search whose fetch_range is not exactly two ints raises ValueError
\* and sends no request.
FetchRangeValidated ==
    (ev.op = "search"
        /\ ~(Len(ev.args.fetch_range) = 2
                /\ \A i \in DOMAIN ev.args.fetch_range :
                      ev.args.fetch_range[i].int)) =>
        (ev.outcome = "ValueError" /\ ev.nReq = 0)

\* C15: a search with a service that is no member of Services, or with an
\* endpoint, or an element of an endpoint list, outside VALID_ENDPOINTS, raises
\* ValueError, sends no request and does not ask the authentication endpoint;
\* the endpoint '' is not rejected.
SearchArgumentsValidated ==
    (ev.op = "search") =>
        /\ (ev.args.service \notin Services
                \/ \E i \in DOMAIN ev.args.endpoints :
                      ev.args.endpoints[i] \notin VALID_ENDPOINTS) =>
              (ev.outcome = "ValueError" /\ ev.nReq = 0 /\ ev.nAuth = 0)
        /\ (ev.args.service \in Services /\ ev.args.endpoints = <<"">>
                /\ ev.args.fetch_range = <<Int_(1), Int_(25)>>) =>
              (ev.outcome # "ValueError")

\* A search with an endpoint list whose second element is not allowed was
\* rejected on a client whose token had expired.
SearchRejectionSeen ==
    /\ ev.op = "search" /\ ev.args.endpoints = <<"biblio", "full-cycle">>
    /\ ev.args.service \in Services
    /\ ev.outcome = "ValueError" /\ ev.nReq = 0 /\ ev.nAuth = 0
    /\ TokenExpired(ev.token0, ev.start)

----------------------------------------------------------------------------
\* OPSConnection.

\* C16: the search calls of search_published have ranges of at most 100
\* positions that end no later than the requested end, each range starts right
\* after the one before it, no call follows a page with fewer results than its
\* range or the collection of the requested number of results, and when no
\* page holds more results than its range no more than the requested number
\* are returned.
PagesContiguousAndBounded ==
    (job.op = "search_published") =>
        LET width(i) == job.ranges[i][2] - job.ranges[i][1] + 1
            collected[k \in 0..Len(job.pages)] ==
                IF k = 0 THEN 0 ELSE collected[k - 1] + job.pages[k]
        IN  /\ \A i \in DOMAIN job.ranges :
                  /\ width(i) <= 100
                  /\ job.ranges[i][2] <= job.fetch_range[2]
                  /\ (i > 1) =>
                        /\ job.ranges[i][1] = job.ranges[i - 1][2] + 1
                        /\ job.pages[i - 1] >= width(i - 1)
                        /\ collected[i - 1] < job.num_publications
            /\ (job.pc = "returned"
                    /\ \A i \in DOMAIN job.pages : job.pages[i] <= width(i)) =>
                  (job.end_results <= job.num_publications)

\* C17: find_equivalents sends one POST per input, in the order of the inputs,
\* to the equivalents endpoint of the input's id_type, with that input's id
\* alone as data; when it returns it has sent one for each input, and the keys
\* of its mapping are the inputs.
EquivalentsFetchedOneByOne ==
    (job.op = "find_equivalents") =>
        /\ Len(job.sent) <= Len(job.args.inputs)
        /\ \A i \in DOMAIN job.sent :
              /\ job.sent[i].method = "POST"
              /\ job.sent[i].data = to_id(job.args.inputs[i])
              /\ job.sent[i].url =
                    URL_PREFIX \o "/published-data/publication/"
                        \o job.args.ids[i] \o "/equivalents"
        /\ (job.pc = "returned") =>
              /\ Len(job.sent) = Len(job.args.inputs)
              /\ job.keys = {job.objects[i] : i \in DOMAIN job.objects}

\* find_equivalents returned for an epodoc and a docdb input, the second
\* request carrying EP.(2,5).
EquivalentsOfTwoSeen ==
    /\ job.op = "find_equivalents" /\ job.pc = "returned"
    /\ job.args.ids = <<"epodoc", "docdb">>
    /\ Len(job.sent) = 2 /\ Cardinality(job.keys) = 2
    /\ job.sent[1].data = <<"E", "P", "1", "0", "A", "1">>
    /\ job.sent[2].data = <<"E", "P", ".", "(", "2", ",", "5", ")">>

----------------------------------------------------------------------------
\* APIInput.

EpodocHasNoSeparator ==
    (ev.op = "to_id" /\ ev.outcome = "ok") =>
        LET in == ev.args.inputs[1]
            number == IF in.id_type # "classification"
                          /\ \E i \in DOMAIN in.number :
                                in.number[i] \in {",", ".", "/"}
                      THEN <<"(">> \o in.number \o <<")">>
                      ELSE in.number
            opt(t) == IF t = NoText THEN <<>> ELSE <<t>>
            parts == opt(in.country) \o <<number>> \o opt(in.kind)
                        \o opt(in.date)
        IN  ev.id = IF in.id_type = "epodoc" THEN Join(parts, <<>>)
                    ELSE IF in.id_type = "classification" THEN in.number
                    ELSE Join(parts, <<".">>)

\* C20: the constructor of APIInput raises ValueError exactly when the id_type
\* is none of epodoc, docdb, original and classification, or the country is
\* given and blank, or the kind is given and blank, or the date is given and
\* is not 8 digits that are the year, month and day of a calendar date.
ConstructionFailsIffInvalid ==
    (ev.op = "APIInput") =>
        LET in == ev.args.inputs[1]
            digits(t) == Len(t) = 8 /\ \A i \in 1..8 : t[i] \in Digits
            dated(t)  == /\ IntOf(t, 1, 5) >= 1
                         /\ IntOf(t, 5, 7) \in 1..12
                         /\ IntOf(t, 7, 9) >= 1
                         /\ IntOf(t, 7, 9) <= DaysIn(IntOf(t, 1, 5),
                                                     IntOf(t, 5, 7))
        IN  (ev.outcome = "ValueError") <=>
                \/ in.id_type \notin
                      {"epodoc", "docdb", "original", "classification"}
                \/ in.country # NoText /\ \A i \in DOMAIN in.country :
                                             in.country[i] = " "
                \/ in.kind # NoText /\ \A i \in DOMAIN in.kind :
                                          in.kind[i] = " "
                \/ in.date # NoText /\ ~(digits(in.date) /\ dated(in.date))

\* C21: an APIInput that was constructed has a number that is not empty, and
\* to_id never writes an id for an empty number.
NumberIsNotEmpty ==
    (ev.op \in {"APIInput", "id_type", "to_id"} /\ ev.outcome = "ok") =>
        (ev.args.inputs[1].number # <<>>)

----------------------------------------------------------------------------
\* build_ops_url.

\* C22: build_ops_url returns URL_PREFIX followed, for each of service,
\* reference_type, id_type, endpoint and the options joined by ',' that is
\* neither None nor empty, in this order, by '/' and that part; a part that is
\* None or empty adds nothing.
UrlHoldsPresentParts ==
    (ev.op = "build_ops_url") =>
        LET seg(x) == IF x = None \/ x = "" THEN "" ELSE "/" \o x
            opts == IF ev.args.options = NoText THEN None
                    ELSE JoinStr(ev.args.options, ",")
        IN  ev.sent.url =
                URL_PREFIX \o seg(ev.args.service) \o seg(ev.args.ref_type)
                    \o seg(ev.args.ids[1]) \o seg(ev.args.endpoint)
                    \o seg(opts)

\* build_ops_url was called with the endpoint '' and an empty list of options.
UrlWithoutEndpointSeen ==
    /\ ev.op = "build_ops_url"
    /\ ev.args.endpoint = "" /\ ev.args.options = <<>>
    /\ ev.sent.url =
          "https://ops.epo.org/3.1/rest-services/published-data/publication/epodoc"

----------------------------------------------------------------------------
\* The throttle ledger, continued.

\* C23: the ledger always holds the five buckets search, retrieval, inpadoc,
\* images and other and no other; an operation that dispatches to a bucket
\* leaves last_call and next_call of every other bucket as they were, and it
\* sleeps only when the next_call of its own bucket lies in the future.
BucketsAreIndependent ==
    [][/\ DOMAIN last_call' =
              {"search", "retrieval", "inpadoc", "images", "other"}
       /\ DOMAIN next_call' =
              {"search", "retrieval", "inpadoc", "images", "other"}
       /\ (ev'.op \in {"get", "post", "fetch", "search", "get_publication"}) =>
             /\ \A b \in DOMAIN last_call :
                   (b # ev'.bucket) =>
                       /\ last_call'[b] = last_call[b]
                       /\ next_call'[b] = next_call[b]
             /\ (ev'.nReq > 0) => (ev'.next0 = next_call[ev'.bucket])
             /\ (ev'.sleepArg > 0) =>
                   /\ next_call[ev'.bucket] # NoTime
                   /\ clock < next_call[ev'.bucket]]_vars

\* A get to the search bucket was sent without sleeping while the next_call of
\* the retrieval bucket lay in the future.
OtherBucketNotWaitedFor ==
    /\ ev.op = "get" /\ ev.bucket = "search"
    /\ ev.nReq > 0 /\ ev.sleepArg = 0 /\ ev.outcome = "ok"
    /\ next_call["retrieval"] # NoTime
    /\ next_call["retrieval"] > ev.reqTime
    /\ next_call["search"] # next_call["retrieval"]

----------------------------------------------------------------------------
\* OPSConnection.get_publication.

\* C24: get_publication, having read a 2xx response, raises
\* UnknownDocumentFormat when the text holds no recognized document tag, raises
\* ResourceNotFound when the recognized tag has the status 'not found', and
\* returns the documents otherwise; it never returns for a text without a
\* recognized document tag.
UnrecognizedTextNeverReturned ==
    (ev.op = "get_publication" /\ ev.args.body # NoBody) =>
        IF ev.args.body.tag = None
        THEN ev.outcome = "UnknownDocumentFormat"
        ELSE IF ev.args.body.status = "not found"
        THEN ev.outcome = "ResourceNotFound"
        ELSE ev.outcome = "ok" /\ ev.result = "documents"

\* C24, amended: get_publication, having read a 2xx response, returns None for
\* the documents when the text holds no ops:world-patent-data tag; when it
\* holds one, it raises UnknownDocumentFormat if no recognized document tag is
\* in it, raises ResourceNotFound if the recognized tag has the status
\* 'not found', and returns the documents otherwise.
UnrecognizedTextInEnvelopeRaises ==
    (ev.op = "get_publication" /\ ev.args.body # NoBody) =>
        IF ~ev.args.body.wpd
        THEN ev.outcome = "ok" /\ ev.result = "None"
        ELSE IF ev.args.body.tag = None
        THEN ev.outcome = "UnknownDocumentFormat"
        ELSE IF ev.args.body.status = "not found"
        THEN ev.outcome = "ResourceNotFound"
        ELSE ev.outcome = "ok" /\ ev.result = "documents"

\* get_publication raised ResourceNotFound for a 200 response whose
\* ops:fulltext-inquiry has the status 'not found'.
NotFoundInTextSeen ==
    /\ ev.op = "get_publication" /\ ev.resp.status = 200
    /\ ev.args.body.wpd /\ ev.args.body.tag = "ops:fulltext-inquiry"
    /\ ev.args.body.status = "not found"
    /\ ev.outcome = "ResourceNotFound"

----------------------------------------------------------------------------
\* The throttle record on the failure path.

\* The operations of the client that go through _throttled_call.
DispatchOps == {"get", "post", "fetch", "search", "get_publication"}

\* C25: after a dispatch to a bucket, last_call of the bucket is the moment
\* the request was issued, which is not before the end of the throttle sleep,
\* whatever the response; and after a response that is not 2xx (a 403 quota
\* rejection included) next_call of the bucket is what it was before.
FailureKeepsNextCall ==
    (ev.op \in DispatchOps /\ ev.nReq > 0) =>
        /\ last_call[ev.bucket] = ev.reqTime
        /\ ev.reqTime >= ev.start + ev.sleepArg
        /\ (ev.resp.status < 200 \/ ev.resp.status >= 300) =>
               next_call[ev.bucket] = ev.next0

\* A dispatch slept for its bucket and was then rejected for quota: next_call
\* is the time it waited for, last_call the later moment of the request.
RejectedAfterSleepSeen ==
    /\ ev.op \in DispatchOps /\ ev.nReq > 0
    /\ ev.sleepArg > 0 /\ ev.resp.status = 403
    /\ ev.outcome \in {"QuotaPerHourExceeded", "QuotaPerWeekExceeded"}
    /\ next_call[ev.bucket] = ev.next0
    /\ last_call[ev.bucket] = ev.start + ev.sleepArg
    /\ ev.start < last_call[ev.bucket]

----------------------------------------------------------------------------
\* Two threads on one bucket.

\* C26: when two threads are in _throttled_call for the same bucket, at most
\* one of their requests is under way at a time, and no request is issued
\* before the time _next_call holds for the bucket when it is issued.
ThrottleKeptByTwoCallers ==
    \A t, u \in Threads :
        /\ (t # u /\ callers[t].pc = "flight" /\ callers[u].pc = "flight") =>
               callers[t].service # callers[u].service
        /\ (callers[t].pc \in {"flight", "returned"}
               /\ callers[t].due # NoTime) =>
                   callers[t].reqTime >= callers[t].due

----------------------------------------------------------------------------
\* The token at the time of the request.

\* C27: the token a fetch or a search sends as Bearer has not expired at the
\* moment the request is issued, which is after the throttle sleep.
BearerValidWhenSent ==
    (ev.op \in {"fetch", "search"} /\ ev.nReq > 0 /\ ev.bearer # 0) =>
        /\ token.token = ev.bearer
        /\ ~TokenExpired(token, ev.reqTime)

----------------------------------------------------------------------------
\* The two times of a bucket.

\* C28: a bucket whose next_call is set has its last_call set, and its
\* next_call is not before its last_call.
NextCallNotBeforeLastCall ==
    \A b \in DOMAIN next_call :
        (next_call[b] # NoTime) =>
            (last_call[b] # NoTime /\ next_call[b] >= last_call[b])

\* C28, amended: a bucket whose next_call is set has its last_call set, and
\* after a dispatch that returned a response the bucket's next_call is its
\* last_call plus the delay of the response, which is not negative.
NextCallNotBeforeLastSuccess ==
    /\ \A b \in DOMAIN next_call :
           (next_call[b] # NoTime) => (last_call[b] # NoTime)
    /\ (ev.op \in DispatchOps /\ ev.nReq > 0
            /\ ResponseError(ev.resp) = None) =>
           /\ next_call[ev.bucket] # NoTime
           /\ next_delta(ev.resp.rate) >= 0
           /\ next_call[ev.bucket] =
                  last_call[ev.bucket] + next_delta(ev.resp.rate)

\* A dispatch failed later than the time its bucket was scheduled for by an
\* earlier response: last_call is past next_call.
FailedPastNextCallSeen ==
    /\ ev.op \in DispatchOps /\ ev.nReq > 0
    /\ ResponseError(ev.resp) # None
    /\ next_call[ev.bucket] # NoTime
    /\ last_call[ev.bucket] > next_call[ev.bucket]

----------------------------------------------------------------------------
\* OPSConnection.find_fulltext.

\* C29: find_fulltext, called with inputs of a class it takes, returns a
\* mapping with one entry for every input, whichever inputs have the text and
\* whichever lack it: it raises nothing but what a call of the client raised
\* or what the text of that call's response, holding no documents of the
\* kind asked for, made it raise.
FulltextForEveryInput ==
    (job.op = "find_fulltext" /\ job.args.kind \in {"APIInput", "DocumentID"}
        /\ job.pc \in {"returned", "raised"}) =>
        IF job.pc = "returned"
        THEN job.keys = DOMAIN job.args.inputs
        ELSE /\ ev.op \in {"fetch", "get_publication"}
             /\ \/ ev.outcome = job.exc
                \/ /\ job.exc = "AttributeError" /\ ev.outcome = "ok"
                   /\ \/ ev.result # "documents"
                      \/ ev.args.body.tag # "ops:fulltext-inquiry"

----------------------------------------------------------------------------
\* OPSConnection.search_published: how it ends.

\* C30: in search_published every page but the last holds a result, no page
\* starts past the end asked for, and the method ends by returning the results
\* with the response of a search call it made, also when no result is asked
\* for: it raises nothing but what a search call raised.
SearchPublishedAlwaysReturns ==
    (job.op = "search_published") =>
        /\ \A i \in DOMAIN job.ranges : job.ranges[i][1] <= job.fetch_range[2]
        /\ \A i \in DOMAIN job.pages :
               (i < Len(job.ranges) \/ job.pc = "loop") => job.pages[i] > 0
        /\ (job.pc = "returned") =>
               (job.ranges # <<>> /\ Len(job.pages) = Len(job.ranges))
        /\ (job.pc = "raised") =>
               (ev.op = "search" /\ ev.outcome = job.exc)

====
